---- MODULE Spec2Model ----
(***************************************************************************)
(* Lead management back end: the Lead collection (models/Lead.ts), the     *)
(* lead controller (createLead, updateLead, deleteLead, assignLeads,       *)
(* addNote) and the spreadsheet import (excelController.importFromExcel).  *)
(*                                                                         *)
(* A request handler is an async function: between two awaits it runs      *)
(* without interruption, and every await is one operation of the database. *)
(* Each action below is one database operation of a handler together with  *)
(* the handler code that runs up to the next await (or the response).      *)
(* Strings are sequences of one-character strings, so that trim,           *)
(* toLowerCase and the regular expressions are computed, not assumed.      *)
(***************************************************************************)
EXTENDS Integers, Sequences, FiniteSets, TLC

VARIABLES leads, nextId, slots, wizard

vars == <<leads, nextId, slots, wizard>>

(***************************************************************************)
(* Bounds of the model.                                                    *)
(***************************************************************************)
\* Number of lead documents ever inserted in one behaviour (ObjectIds are
\* never reused, so the id counter only grows).
MaxLeadId == 2
\* Number of notes on one lead.
MaxNotes == 2

(***************************************************************************)
(* Strings.                                                                *)
(***************************************************************************)
UpperChars == <<"A","B","C","D","E","F","G","H","I","J","K","L","M",
                "N","O","P","Q","R","S","T","U","V","W","X","Y","Z">>

LowerChars == <<"a","b","c","d","e","f","g","h","i","j","k","l","m",
                "n","o","p","q","r","s","t","u","v","w","x","y","z">>

Digits == {"0","1","2","3","4","5","6","7","8","9"}

\* \s of a JavaScript regular expression, and the characters String.trim drops.
IsSpace(c) == c \in {" ", "\t", "\n"}

toLowerChar(c) ==
  IF \E i \in 1..Len(UpperChars) : UpperChars[i] = c
    THEN LowerChars[CHOOSE i \in 1..Len(UpperChars) : UpperChars[i] = c]
    ELSE c

\* String.prototype.toLowerCase
toLowerCase(s) == [i \in 1..Len(s) |-> toLowerChar(s[i])]

SetMin(S) == CHOOSE x \in S : \A y \in S : x <= y

SetMax(S) == CHOOSE x \in S : \A y \in S : x >= y

\* String.prototype.trim
trim(s) ==
  LET keep == {i \in 1..Len(s) : ~IsSpace(s[i])}
  IN  IF keep = {} THEN <<>> ELSE SubSeq(s, SetMin(keep), SetMax(keep))

\* [^\s@]
EmailAtom(c) == ~IsSpace(c) /\ c # "@"

\* /^[^\s@]+@[^\s@]+\.[^\s@]+$/ .test(s)
emailRegex(s) ==
  \E a \in 2..Len(s) : \E d \in (a + 2)..(Len(s) - 1) :
    /\ s[a] = "@"
    /\ s[d] = "."
    /\ \A i \in 1..(a - 1) : EmailAtom(s[i])
    /\ \A i \in (a + 1)..(d - 1) : EmailAtom(s[i])
    /\ \A i \in (d + 1)..Len(s) : EmailAtom(s[i])

PhoneMinLen == 7

PhoneMaxLen == 25

\* [\d\s\-\(\)\.]
PhoneAtom(c) == c \in Digits \/ IsSpace(c) \/ c \in {"-", "(", ")", "."}

\* /^[\+]?[\d\s\-\(\)\.]{7,25}$/ .test(s)
phoneRegex(s) ==
  LET body == IF Len(s) > 0 /\ s[1] = "+" THEN Tail(s) ELSE s
  IN  /\ Len(body) >= PhoneMinLen
      /\ Len(body) <= PhoneMaxLen
      /\ \A i \in 1..Len(body) : PhoneAtom(body[i])

\* A cell the sheet does not hold (undefined in the row array).
undefined == <<"undefined">>

\* JavaScript truthiness of a cell: neither undefined nor the empty string.
Truthy(c) == c # undefined /\ c # <<>>


(***************************************************************************)
(* String values the requests and the sheets are built from.               *)
(***************************************************************************)
sAnn == <<"A","n","n">>

sBo == <<"B","o">>

sAnn2 == <<"A","n","n","2">>

sCy == <<"C","y">>

\* A one-letter name: shorter than the schema's minlength.
sA == <<"A">>

eAnn == <<"a","n","n","@","x",".","c","o","m">>

\* The same address as eAnn, as an operator may type it.
eAnnRaw == <<" ","A","n","n","@","X",".","c","o","m"," ">>

eBo == <<"b","o","@","x",".","c","o","m">>

eCy == <<"c","y","@","x",".","c","o","m">>

\* Not an e-mail address: no @.
eBad == <<"a","n","n",".","x",".","c","o","m">>

\* The phone numbers of the specification's Scenario A.
p5551 == <<"5","5","5","-","1">>

p5552 == <<"5","5","5","-","2">>

p5553 == <<"5","5","5","-","3">>

pOne == <<"5","5","5","-","0","0","0","1">>

pOneRaw == <<" ","5","5","5","-","0","0","0","1">>

pTwo == <<"5","5","5","-","0","0","0","2">>

pThree == <<"5","5","5","-","0","0","0","3">>

\* A source and a priority as typed into a sheet: padded, and in lower case.
srcWebsiteRaw == <<" ","W","e","b","s","i","t","e"," ">>

srcLower == <<"w","e","b","s","i","t","e">>

prioLower == <<"h","i","g","h">>

(***************************************************************************)
(* models/Lead.ts: the schema, its validators, the pre-save hook and the   *)
(* unique indexes.                                                         *)
(***************************************************************************)
validSources == << <<"W","e","b","s","i","t","e">>, <<"S","o","c","i","a","l"," ","M","e","d","i","a">>,
                   <<"R","e","f","e","r","r","a","l">>, <<"I","m","p","o","r","t">>, <<"M","a","n","u","a","l">>,
                   <<"C","o","l","d"," ","C","a","l","l">>,
                   <<"E","m","a","i","l"," ","C","a","m","p","a","i","g","n">> >>

validPriorities == << <<"H","i","g","h">>, <<"M","e","d","i","u","m">>, <<"L","o","w">> >>

srcImport == validSources[4]

srcManual == validSources[5]

prioMedium == validPriorities[2]

prioLow == validPriorities[3]

RECURSIVE join(_, _)
\* Array.prototype.join
join(arr, sep) ==
  IF arr = <<>> THEN <<>>
  ELSE IF Len(arr) = 1 THEN arr[1]
  ELSE arr[1] \o sep \o join(Tail(arr), sep)

\* Array.prototype.includes
includes(arr, v) == \E i \in 1..Len(arr) : arr[i] = v

LeadStatuses == <<"New", "Contacted", "Interested", "Not Interested", "Follow-up",
                  "Qualified", "Proposal Sent", "Negotiating", "Closed-Won", "Closed-Lost">>

NameMinLen == 2

NameMaxLen == 100

TextMaxLen == 100

NoteMaxLen == 1000

DefaultLeadScore == 50

\* No user reference (assignedTo / assignedBy not set).
NoUser == "none"

\* The setters of the schema: trim on name, email, phone, company, position;
\* lowercase on email. A missing value stays missing.
SetTrim(v) == IF v = undefined THEN undefined ELSE trim(v)

SetEmail(v) == IF v = undefined THEN undefined ELSE toLowerCase(trim(v))

\* Document validation run by save(): required, minlength, maxlength, match, enum.
\* The match validator lets the empty string through; required does not.
ValidName(v) == Truthy(v) /\ Len(v) >= NameMinLen /\ Len(v) <= NameMaxLen

ValidEmail(v) == Truthy(v) /\ emailRegex(v)

ValidPhone(v) == Truthy(v) /\ phoneRegex(v)

ValidText(v) == v = undefined \/ Len(v) <= TextMaxLen

ValidNote(n) == Len(n.content) > 0 /\ Len(n.content) <= NoteMaxLen

ValidateDoc(d) ==
  /\ ValidName(d.name)
  /\ ValidEmail(d.email)
  /\ ValidPhone(d.phone)
  /\ ValidText(d.company)
  /\ ValidText(d.position)
  /\ includes(validSources, d.source)
  /\ includes(LeadStatuses, d.status)
  /\ includes(validPriorities, d.priority)
  /\ \A i \in 1..Len(d.notes) : ValidNote(d.notes[i])

\* The table of the pre-save hook.
scoreMap(status) ==
  CASE status = "New" -> 20
    [] status = "Contacted" -> 30
    [] status = "Interested" -> 50
    [] status = "Not Interested" -> 10
    [] status = "Follow-up" -> 40
    [] status = "Qualified" -> 70
    [] status = "Proposal Sent" -> 80
    [] status = "Negotiating" -> 90
    [] status = "Closed-Won" -> 100
    [] status = "Closed-Lost" -> 0

\* scoreMap[this.status] || 50 : a falsy table value (0) gives the fallback.
ScoreOf(status) ==
  IF scoreMap(status) = 0 THEN DefaultLeadScore ELSE scoreMap(status)

\* leadSchema.pre('save'): the score follows the status when the status path
\* is modified.
preSave(d, statusModified) ==
  IF statusModified THEN [d EXCEPT !.leadScore = ScoreOf(d.status)] ELSE d

\* Faulty variant of DuplicateKey: a collection without unique indexes.
NoUniqueIndex(store, d) == "none"

\* The unique indexes on email and phone: the key of the first index that
\* another document of the collection already holds, or "none".
DuplicateKey(store, d) ==
  IF \E l \in store : l.id # d.id /\ l.email = d.email THEN "email"
  ELSE IF \E l \in store : l.id # d.id /\ l.phone = d.phone THEN "phone"
  ELSE "none"

\* Outcome of inserting or updating document d: the validators run first,
\* then the write, which the unique indexes may refuse (E11000).
SaveOutcome(store, d) ==
  IF ~ValidateDoc(d) THEN "ValidationError"
  ELSE IF DuplicateKey(store, d) # "none" THEN "E11000"
  ELSE "ok"

\* Faulty variant of getDuplicateError: the duplicate key error is not recognised.
DuplicateErrorUnrecognised(outcome) == "null"

\* getDuplicateError: the friendly message of an E11000 error, or null.
getDuplicateError(outcome) == IF outcome = "E11000" THEN "duplicate" ELSE "null"


(***************************************************************************)
(* Requests: the sheets and bodies the clients send.                       *)
(***************************************************************************)
Row(name, email, phone) ==
  [name |-> name, email |-> email, phone |-> phone, company |-> undefined,
   position |-> undefined, source |-> undefined, priority |-> undefined]

HeaderRow == Row(<<"N","a","m","e">>, <<"E","m","a","i","l">>, <<"P","h","o","n","e">>)

\* A sheet: the header row, then the data rows.
Sheet(rows) == <<HeaderRow>> \o rows

rBlank == Row(undefined, undefined, undefined)

rPhoneOnly == Row(undefined, undefined, pThree)

rAnn == Row(sAnn, eAnnRaw, pOne)

rBo == Row(sBo, eBo, pTwo)

rCyOne == Row(sCy, eCy, pOne)

rAnn2 == Row(sAnn2, eAnn, pThree)

rNoPhone == Row(sBo, eBo, undefined)

\* Two validation errors: the email has no @, the phone is missing.
rBadEmail == Row(sCy, eBad, undefined)

rShortName == Row(sA, eCy, pThree)

\* A row with the cells of its source and priority columns filled in.
RowWith(row, source, priority) == [row EXCEPT !.source = source, !.priority = priority]

rAnnWeb == RowWith(rAnn, srcWebsiteRaw, prioLow)

rBoLower == RowWith(rBo, srcLower, prioLower)

rCyThree == Row(sCy, eCy, pThree)

\* A company name one character longer than the schema allows.
LongText == [i \in 1..(TextMaxLen + 1) |-> "x"]

rLongCompany == [rCyThree EXCEPT !.company = LongText]

\* Scenario A of the specification.
ScenarioA == Sheet(<<Row(sAnn, eAnn, p5551), Row(sBo, eBo, p5552), Row(sAnn2, eAnn, p5553)>>)

\* The sheets uploaded when requests are served one at a time.
SeqSheets ==
  { ScenarioA,
    Sheet(<<rAnn, rBo>>),
    Sheet(<<rAnn, rBo, rAnn2>>),
    Sheet(<<rNoPhone, rAnn, rAnn2>>),
    Sheet(<<rAnn, rBlank, rCyOne>>),
    Sheet(<<rBadEmail, rBo>>),
    Sheet(<<rPhoneOnly, rShortName, rBo>>),
    Sheet(<<rCyOne>>),
    Sheet(<<rAnnWeb, rBoLower, rCyThree>>),
    Sheet(<<rLongCompany>>) }

\* The sheets uploaded by clients racing each other.
RaceSheets == { Sheet(<<rAnn, rBo>>) }

\* An uploaded file: whether XLSX can read it, and the worksheets it holds.
Workbook(sheet) == [readable |-> TRUE, sheets |-> <<sheet>>]

\* A file XLSX.read / XLSX.readFile throws on.
CorruptFile == [readable |-> FALSE, sheets |-> <<>>]

\* A readable workbook without worksheets.
EmptyWorkbook == [readable |-> TRUE, sheets |-> <<>>]

\* The sheets uploaded along with broken files.
FileSheets == { Sheet(<<rAnn, rBo>>), Sheet(<<rBadEmail, rBo>>) }

\* The files uploaded: broken ones and workbooks of one sheet.
FileUploads == {CorruptFile, EmptyWorkbook} \cup {Workbook(sheet) : sheet \in FileSheets}

Body(name, email, phone, notes) ==
  [name |-> name, email |-> email, phone |-> phone, company |-> undefined,
   position |-> undefined, source |-> undefined, priority |-> undefined, notes |-> notes]

SeqCreateBodies ==
  { Body(sAnn, eAnnRaw, pOneRaw, undefined),
    Body(sBo, eBo, pTwo, <<"h","i">>),
    Body(sCy, eCy, pOne, undefined),
    Body(sCy, eCy, p5551, undefined),
    Body(undefined, eBo, pThree, undefined) }

RaceCreateBodies ==
  { Body(sAnn2, eAnn, pTwo, undefined),
    Body(sA, eCy, pOneRaw, undefined) }

\* The body of the lead created before notes are added to it.
NoteCreateBodies == { Body(sBo, eBo, pTwo, undefined) }

\* The contents of the notes added; notes differ by their authors.
NoteContents == { <<"o","k">> }

Update(name, email, phone, status) ==
  [name |-> name, email |-> email, phone |-> phone, company |-> undefined,
   position |-> undefined, source |-> undefined, status |-> status, priority |-> undefined]

RaceUpdateBodies ==
  { Update(undefined, eAnnRaw, pTwo, "Closed-Lost") }

\* Updates racing on one lead: the second one moves the lead's email away.
StaleUpdateBodies ==
  RaceUpdateBodies \cup { Update(undefined, eCy, undefined, "undefined") }

(***************************************************************************)
(* Users (req.user as set by the authentication middleware).               *)
(***************************************************************************)
Users == {"admin", "user"}

Role(u) == IF u = "admin" THEN "admin" ELSE "user"

Admins == {u \in Users : Role(u) = "admin"}

(***************************************************************************)
(* controllers/excelController.ts                                          *)
(***************************************************************************)
RECURSIVE Concat(_)
\* Concatenation of a sequence of sequences (push(...xs) in a loop).
Concat(ss) == IF ss = <<>> THEN <<>> ELSE Head(ss) \o Concat(Tail(ss))

IsString(c) == c # undefined

Msg(kind, arg) == [kind |-> kind, arg |-> arg]

RowError(row, field, kind, arg) == [row |-> row, field |-> field, message |-> Msg(kind, arg)]

\* Faulty variant of AllowedValue: the comparison ignores the case of letters.
AllowedIgnoringCase(allowed, cell) ==
  \E i \in 1..Len(allowed) : toLowerCase(allowed[i]) = toLowerCase(trim(cell))

\* validSources.includes(row.source.trim()), and the same for priorities.
AllowedValue(allowed, cell) == includes(allowed, trim(cell))

validateAndNormalizeLeadRow(row, rowIndex) ==
  LET nameErr ==
        IF ~Truthy(row.name) \/ ~IsString(row.name) \/ Len(trim(row.name)) = 0
          THEN <<RowError(rowIndex, "name", "required", <<>>)>> ELSE <<>>
      emailErr ==
        IF ~Truthy(row.email) \/ ~IsString(row.email) \/ Len(trim(row.email)) = 0
          THEN <<RowError(rowIndex, "email", "required", <<>>)>>
        ELSE IF ~emailRegex(trim(row.email))
          THEN <<RowError(rowIndex, "email", "format", <<>>)>> ELSE <<>>
      phoneErr ==
        IF ~Truthy(row.phone) \/ ~IsString(row.phone) \/ Len(trim(row.phone)) = 0
          THEN <<RowError(rowIndex, "phone", "required", <<>>)>> ELSE <<>>
      hasSource == Truthy(row.source) /\ IsString(row.source)
      sourceOk == hasSource /\ AllowedValue(validSources, row.source)
      sourceErr ==
        IF hasSource /\ ~sourceOk
          THEN <<RowError(rowIndex, "source", "enum", join(validSources, <<",", " ">>))>> ELSE <<>>
      hasPriority == Truthy(row.priority) /\ IsString(row.priority)
      priorityOk == hasPriority /\ AllowedValue(validPriorities, row.priority)
      priorityErr ==
        IF hasPriority /\ ~priorityOk
          THEN <<RowError(rowIndex, "priority", "enum", join(validPriorities, <<",", " ">>))>> ELSE <<>>
      errors == nameErr \o emailErr \o phoneErr \o sourceErr \o priorityErr
  IN  IF Len(errors) > 0
        THEN [isValid |-> FALSE, errors |-> errors]
        ELSE [isValid |-> TRUE,
              lead |-> [name |-> trim(row.name),
                        email |-> toLowerCase(trim(row.email)),
                        phone |-> trim(row.phone),
                        company |-> IF Truthy(row.company) /\ IsString(row.company)
                                      THEN trim(row.company) ELSE <<>>,
                        position |-> IF Truthy(row.position) /\ IsString(row.position)
                                       THEN trim(row.position) ELSE <<>>,
                        source |-> IF sourceOk THEN trim(row.source) ELSE srcImport,
                        priority |-> IF priorityOk THEN trim(row.priority) ELSE prioMedium,
                        status |-> "New"],
              errors |-> <<>>]

NonEmptyRow(row) == Truthy(row.name) \/ Truthy(row.email)

\* sheet_to_json(...).slice(1).map(...).filter(row => row.name || row.email):
\* the sheet's rows without the header row and without the rows that have
\* neither a name nor an email.
ParseSheet(sheet) == SelectSeq(Tail(sheet), NonEmptyRow)

\* The validation loop: validateAndNormalizeLeadRow(jsonData[i], i + 2), i from 0.
Validations(jsonData) ==
  [i \in 1..Len(jsonData) |-> validateAndNormalizeLeadRow(jsonData[i], i + 1)]

ValidLeadsOf(jsonData) ==
  LET v == Validations(jsonData)
  IN  Concat([i \in 1..Len(jsonData) |-> IF v[i].isValid THEN <<v[i].lead>> ELSE <<>>])

\* Faulty variant of ValidationErrorsOf: only the first error of a row is kept.
FirstErrorOfEachRow(jsonData) ==
  LET v == Validations(jsonData)
  IN  Concat([i \in 1..Len(jsonData) |->
                IF v[i].isValid THEN <<>> ELSE <<Head(v[i].errors)>>])

\* errors.push(...validation.errors) over the rows that are not valid.
ValidationErrorsOf(jsonData) ==
  LET v == Validations(jsonData)
  IN  Concat([i \in 1..Len(jsonData) |-> IF v[i].isValid THEN <<>> ELSE v[i].errors])

\* validLeads.findIndex(l => l.email === email), counted from 1.
findIndex(validLeads, email) ==
  SetMin({i \in 1..Len(validLeads) : validLeads[i].email = email})

\* Faulty variant of DuplicateErrorsOf: later rows with an email of the file
\* are dropped without an error.
NoDuplicateErrors(validLeads) == <<>>

\* emailMap.forEach: for every email in order of first occurrence, one error
\* for each later occurrence, row: index + 2 with index counted from 0.
DuplicateErrorsOf(validLeads) ==
  LET n == Len(validLeads)
      later(i) ==
        Concat([j \in 1..n |->
                  IF j > i /\ validLeads[j].email = validLeads[i].email
                    THEN <<RowError(j + 1, "email", "dupfile", validLeads[j].email)>>
                    ELSE <<>>])
  IN  Concat([i \in 1..n |->
                IF findIndex(validLeads, validLeads[i].email) = i THEN later(i) ELSE <<>>])

\* Faulty variant of UniqueValidLeadsOf: the last row with an email is kept.
LastOccurrenceKept(validLeads) ==
  Concat([i \in 1..Len(validLeads) |->
            IF \A j \in 1..Len(validLeads) : validLeads[j].email = validLeads[i].email => j <= i
              THEN <<validLeads[i]>> ELSE <<>>])

\* validLeads.filter((lead, index) => emailMap.get(lead.email)[0] === index)
UniqueValidLeadsOf(validLeads) ==
  Concat([i \in 1..Len(validLeads) |->
            IF findIndex(validLeads, validLeads[i].email) = i
              THEN <<validLeads[i]>> ELSE <<>>])

\* Faulty variant of ExistingEmailSet: the collection is not consulted.
NoExistingEmails(store, uniqueValidLeads) == {}

\* Lead.find({email: {$in: emails}}).select('email'), as a set of emails.
ExistingEmailSet(store, uniqueValidLeads) ==
  {l.email : l \in {x \in store :
      \E i \in 1..Len(uniqueValidLeads) : uniqueValidLeads[i].email = x.email}}

\* Faulty variant of NewImportedLead: the lead is assigned to the importer.
ImportedLeadAssigned(id, leadData, userId) ==
  preSave([id |-> id,
           name |-> SetTrim(leadData.name),
           email |-> SetEmail(leadData.email),
           phone |-> SetTrim(leadData.phone),
           company |-> SetTrim(leadData.company),
           position |-> SetTrim(leadData.position),
           source |-> leadData.source,
           status |-> leadData.status,
           priority |-> leadData.priority,
           assignedTo |-> userId,
           assignedBy |-> userId,
           notes |-> <<>>,
           leadScore |-> DefaultLeadScore], TRUE)

\* new Lead({...leadData, assignedBy: req.user.userId}) with the schema's
\* setters and defaults; status is given, so the pre-save hook sets the score.
NewImportedLead(id, leadData, userId) ==
  preSave([id |-> id,
           name |-> SetTrim(leadData.name),
           email |-> SetEmail(leadData.email),
           phone |-> SetTrim(leadData.phone),
           company |-> SetTrim(leadData.company),
           position |-> SetTrim(leadData.position),
           source |-> leadData.source,
           status |-> leadData.status,
           priority |-> leadData.priority,
           assignedTo |-> NoUser,
           assignedBy |-> userId,
           notes |-> <<>>,
           leadScore |-> DefaultLeadScore], TRUE)

\* Faulty variant of ImportResult: the failures are counted by error entries.
ResultCountingErrors(totalRows, createdLeads, errors) ==
  [success |-> TRUE,
   totalRows |-> totalRows,
   successfulImports |-> Len(createdLeads),
   failedImports |-> Len(errors),
   errors |-> errors,
   leads |-> createdLeads]

\* The result object of a completed import.
ImportResult(totalRows, createdLeads, errors) ==
  [success |-> TRUE,
   totalRows |-> totalRows,
   successfulImports |-> Len(createdLeads),
   failedImports |-> totalRows - Len(createdLeads),
   errors |-> errors,
   leads |-> createdLeads]

NoResp == [status |-> 0]

IdleSlot == [kind |-> "idle", pc |-> "idle", resp |-> NoResp]

\* A slot takes a new request when it serves none or has answered the last one.
Free(s) == slots[s].pc \in {"idle", "done"}

\* importFromExcel before its first await: the file is read, the rows are
\* validated and the duplicates within the file are marked.
AnalyseSheet(sheet) ==
  LET jsonData == ParseSheet(sheet)
      validLeads == ValidLeadsOf(jsonData)
  IN  [totalRows |-> Len(jsonData),
       errors |-> ValidationErrorsOf(jsonData) \o DuplicateErrorsOf(validLeads),
       validLeads |-> validLeads,
       uniqueValidLeads |-> UniqueValidLeadsOf(validLeads)]

SheetAnalysis == [sheet \in SeqSheets \cup RaceSheets |-> AnalyseSheet(sheet)]

\* importFromExcel up to the answer of Lead.find, which gives the emails of
\* the file that the collection already holds.
ImportBegin(s, u, sheet, prev) ==
  LET a == SheetAnalysis[sheet]
  IN  /\ slots' = [slots EXCEPT ![s] =
           [kind |-> "import", pc |-> "loop", user |-> u, upload |-> Workbook(sheet),
            file |-> sheet, tmpFile |-> TRUE,
            totalRows |-> a.totalRows,
            errors |-> a.errors,
            validLeads |-> a.validLeads,
            uniqueValidLeads |-> a.uniqueValidLeads,
            existingEmailSet |-> ExistingEmailSet(leads, a.uniqueValidLeads),
            k |-> 1,
            createdLeads |-> <<>>,
            prev |-> prev,
            resp |-> NoResp]]
      /\ UNCHANGED <<leads, nextId>>
  /\ UNCHANGED wizard

\* POST /import/excel (admin only) with an uploaded sheet.
ImportStart(s, u, sheet) ==
  /\ Free(s)
  /\ ImportBegin(s, u, sheet, <<>>)

\* The operator uploads the same file again, right after the report of the
\* previous import of it; prev keeps that report.
ImportAgain(s) ==
  /\ slots[s].pc = "done"
  /\ slots[s].kind = "import"
  /\ slots[s].resp.status = 200
  /\ ImportBegin(s, slots[s].user, slots[s].file, <<slots[s].resp.data>>)

\* The row error of a skipped or failed lead: row is the index of the first
\* valid lead with that email, + 2.
LoopError(validLeads, leadData, field, kind, arg) ==
  RowError(findIndex(validLeads, leadData.email) + 1, field, kind, arg)

\* Faulty variant of SaveFailed: the first failed save ends the loop.
SaveFailedAborts(q, leadData, outcome, doc) ==
  [q EXCEPT !.errors = Append(@, LoopError(q.validLeads, leadData, "database", outcome,
                                 IF DuplicateKey(leads, doc) = "phone"
                                   THEN doc.phone ELSE doc.email)),
            !.k = Len(q.uniqueValidLeads) + 1]

\* Faulty variant of SaveFailed: the failure is swallowed, nothing is reported.
SaveFailedSilently(q, leadData, outcome, doc) == [q EXCEPT !.k = @ + 1]

\* What a failed save adds to the import: one row error; the loop goes on.
SaveFailed(q, leadData, outcome, doc) ==
  [q EXCEPT !.errors = Append(@, LoopError(q.validLeads, leadData, "database", outcome,
                                 IF DuplicateKey(leads, doc) = "phone"
                                   THEN doc.phone ELSE doc.email)),
            !.k = @ + 1]

\* Faulty variant of StoreAfterRow: a failed save undoes the leads created so
\* far by this import.
StoreRolledBack(store, q, leadData, doc, outcome) ==
  IF leadData.email \in q.existingEmailSet THEN store
  ELSE IF outcome # "ok"
    THEN {l \in store : \A i \in 1..Len(q.createdLeads) : q.createdLeads[i].id # l.id}
  ELSE store \cup {doc}

\* Faulty variant of StoreAfterRow: a row whose email the collection holds
\* overwrites the lead that holds it.
StoreUpserted(store, q, leadData, doc, outcome) ==
  IF leadData.email \in q.existingEmailSet
    THEN {IF l.email = leadData.email
            THEN [l EXCEPT !.name = leadData.name, !.phone = leadData.phone] ELSE l
          : l \in store}
  ELSE IF outcome # "ok" THEN store
  ELSE store \cup {doc}

\* The collection after one iteration of the loop: a lead whose email was
\* found in the collection is skipped, a failed save writes nothing, a save
\* that succeeds inserts the document.
StoreAfterRow(store, q, leadData, doc, outcome) ==
  IF leadData.email \in q.existingEmailSet THEN store
  ELSE IF outcome # "ok" THEN store
  ELSE store \cup {doc}

\* One iteration of the loop over uniqueValidLeads.
ImportRow(s) ==
  /\ slots[s].kind = "import"
  /\ slots[s].pc = "loop"
  /\ slots[s].k <= Len(slots[s].uniqueValidLeads)
  /\ LET q == slots[s]
         leadData == q.uniqueValidLeads[q.k]
         doc == NewImportedLead(nextId, leadData, q.user)
         outcome == SaveOutcome(leads, doc)
         skipped == leadData.email \in q.existingEmailSet
         inserted == ~skipped /\ outcome = "ok"
     IN  /\ inserted => nextId <= MaxLeadId
         /\ leads' = StoreAfterRow(leads, q, leadData, doc, outcome)
         /\ nextId' = IF inserted THEN nextId + 1 ELSE nextId
         /\ slots' = [slots EXCEPT ![s] =
              IF skipped
                THEN [q EXCEPT !.errors = Append(@, LoopError(q.validLeads, leadData,
                                                   "email", "exists", leadData.email)),
                               !.k = @ + 1]
              ELSE IF outcome # "ok" THEN SaveFailed(q, leadData, outcome, doc)
              ELSE [q EXCEPT !.createdLeads = Append(@, doc), !.k = @ + 1]]
  /\ UNCHANGED wizard

\* After the loop: the uploaded file is removed and the report sent with 200.
ImportFinish(s) ==
  /\ slots[s].kind = "import"
  /\ slots[s].pc = "loop"
  /\ slots[s].k > Len(slots[s].uniqueValidLeads)
  /\ LET q == slots[s]
     IN  slots' = [slots EXCEPT ![s] =
           [q EXCEPT !.pc = "done", !.tmpFile = FALSE,
                     !.resp = [status |-> 200,
                               data |-> ImportResult(q.totalRows, q.createdLeads, q.errors)]]]
  /\ UNCHANGED <<leads, nextId>>
  /\ UNCHANGED wizard

\* The data of the answers that report no import at all.
EmptyResult ==
  [success |-> FALSE, totalRows |-> 0, successfulImports |-> 0, failedImports |-> 0,
   errors |-> <<>>, leads |-> <<>>]

\* An import that ended without a report: nothing of the file was kept.
EndedImport(u, upload, tmpFile, pc, resp) ==
  [kind |-> "import", pc |-> pc, user |-> u, upload |-> upload, file |-> <<>>,
   tmpFile |-> tmpFile, totalRows |-> 0, errors |-> <<>>, validLeads |-> <<>>,
   uniqueValidLeads |-> <<>>, existingEmailSet |-> {}, k |-> 1, createdLeads |-> <<>>,
   prev |-> <<>>, resp |-> resp]

\* Faulty variant of RefuseFile: the uploaded file is left on disk and the
\* answer claims success.
RefuseFileCarelessly(u, upload, message) ==
  EndedImport(u, upload, TRUE, "done",
              [status |-> 400, message |-> message,
               data |-> [EmptyResult EXCEPT !.success = TRUE]])

\* fs.unlinkSync(filePath), then 400 with the empty result.
RefuseFile(u, upload, message) ==
  EndedImport(u, upload, FALSE, "done",
              [status |-> 400, message |-> message, data |-> EmptyResult])

\* Faulty variant of CaughtError: the uploaded file is left on disk.
CaughtErrorKeepsFile(u, upload, exists) ==
  EndedImport(u, upload, exists, "done",
              [status |-> 500, message |-> "Failed to process Excel file",
               data |-> EmptyResult])

\* The outer catch: the uploaded file is removed if it exists, then 500 with
\* the empty result.
CaughtError(u, upload, exists) ==
  EndedImport(u, upload, IF exists THEN FALSE ELSE exists, "done",
              [status |-> 500, message |-> "Failed to process Excel file",
               data |-> EmptyResult])

\* The file cannot be read: XLSX.read / XLSX.readFile throws.
ImportUnreadable(s, u, upload) ==
  /\ Free(s)
  /\ ~upload.readable
  /\ slots' = [slots EXCEPT ![s] = RefuseFile(u, upload, "Failed to read the uploaded file")]
  /\ UNCHANGED <<leads, nextId>>
  /\ UNCHANGED wizard

\* The workbook holds no worksheet: workbook.SheetNames[0] is undefined.
ImportNoWorksheet(s, u, upload) ==
  /\ Free(s)
  /\ upload.readable
  /\ upload.sheets = <<>>
  /\ slots' = [slots EXCEPT ![s] = RefuseFile(u, upload, "No worksheets found in the file")]
  /\ UNCHANGED <<leads, nextId>>
  /\ UNCHANGED wizard

\* The first worksheet of a readable workbook is imported.
ImportWorkbook(s, u, upload) ==
  /\ upload.readable
  /\ upload.sheets # <<>>
  /\ ImportStart(s, u, upload.sheets[1])

\* Lead.find rejects (the database cannot be reached): the outer catch answers.
ImportFindFails(s, u, upload) ==
  /\ Free(s)
  /\ upload.readable
  /\ upload.sheets # <<>>
  /\ slots' = [slots EXCEPT ![s] = CaughtError(u, upload, TRUE)]
  /\ UNCHANGED <<leads, nextId>>
  /\ UNCHANGED wizard

\* After the loop fs.unlinkSync throws although the file exists; in the outer
\* catch it throws again, so the handler ends without an answer.
ImportUnlinkThrows(s) ==
  /\ slots[s].kind = "import"
  /\ slots[s].pc = "loop"
  /\ slots[s].k > Len(slots[s].uniqueValidLeads)
  /\ slots' = [slots EXCEPT ![s] = [slots[s] EXCEPT !.pc = "crashed"]]
  /\ UNCHANGED <<leads, nextId>>
  /\ UNCHANGED wizard


(***************************************************************************)
(* controllers/leadController.ts                                           *)
(***************************************************************************)
Respond(q, status, message) ==
  [q EXCEPT !.pc = "done", !.resp = [status |-> status, message |-> message]]

\* The 400 of the checks made before the save: it carries the lead found.
RespondDuplicate(q, found) ==
  [q EXCEPT !.pc = "done",
            !.resp = [status |-> 400, message |-> "Duplicate lead detected",
                      data |-> [existingLead |-> (CHOOSE l \in found : TRUE).id]]]

\* Lead.findById
findById(store, id) == {l \in store : l.id = id}

\* req.user.role !== 'admin' && String(lead.assignedTo) !== String(req.user.userId)
AccessDenied(u, lead) == Role(u) # "admin" /\ lead.assignedTo # u

\* new Lead({...leadFields, assignedBy}) of createLead, with the initial note.
\* status is not given: the default 'New' is no modification, the score stays
\* at its default.
NewCreatedLead(id, body, userId) ==
  [id |-> id,
   name |-> SetTrim(body.name),
   email |-> SetEmail(body.email),
   phone |-> SetTrim(body.phone),
   company |-> SetTrim(body.company),
   position |-> SetTrim(body.position),
   source |-> IF body.source = undefined THEN srcManual ELSE body.source,
   status |-> "New",
   priority |-> IF body.priority = undefined THEN prioMedium ELSE body.priority,
   assignedTo |-> NoUser,
   assignedBy |-> userId,
   notes |-> IF Truthy(body.notes)
               THEN <<[content |-> trim(body.notes), createdBy |-> userId]>> ELSE <<>>,
   leadScore |-> DefaultLeadScore]

\* createLead up to the answer of Lead.findOne({email}).
CreateStart(s, u, body) ==
  /\ Free(s)
  /\ LET q == [kind |-> "create", pc |-> "findPhone", user |-> u, body |-> body,
               resp |-> NoResp]
     IN  slots' = [slots EXCEPT ![s] =
           IF ~Truthy(body.name) \/ ~Truthy(body.email) \/ ~Truthy(body.phone)
             THEN Respond(q, 400, "Missing required fields")
           ELSE IF \E l \in leads : l.email = toLowerCase(trim(body.email))
             THEN RespondDuplicate(q, {l \in leads : l.email = toLowerCase(trim(body.email))})
           ELSE q]
  /\ UNCHANGED <<leads, nextId>>
  /\ UNCHANGED wizard

\* createLead: the answer of Lead.findOne({phone}).
CreateFindPhone(s) ==
  /\ slots[s].kind = "create"
  /\ slots[s].pc = "findPhone"
  /\ LET q == slots[s]
     IN  slots' = [slots EXCEPT ![s] =
           IF \E l \in leads : l.phone = trim(q.body.phone)
             THEN RespondDuplicate(q, {l \in leads : l.phone = trim(q.body.phone)})
             ELSE [q EXCEPT !.pc = "save"]]
  /\ UNCHANGED <<leads, nextId>>
  /\ UNCHANGED wizard

\* The answer of a handler whose save threw: 400 for a duplicate key, else 500.
SaveErrorResponse(q, outcome, failure) ==
  IF getDuplicateError(outcome) # "null"
    THEN Respond(q, 400, "Duplicate lead detected")
    ELSE Respond(q, 500, failure)

\* createLead: lead.save() and the response.
CreateSave(s) ==
  /\ slots[s].kind = "create"
  /\ slots[s].pc = "save"
  /\ LET q == slots[s]
         doc == NewCreatedLead(nextId, q.body, q.user)
         outcome == SaveOutcome(leads, doc)
     IN  IF outcome = "ok"
           THEN /\ nextId <= MaxLeadId
                /\ leads' = leads \cup {doc}
                /\ nextId' = nextId + 1
                /\ slots' = [slots EXCEPT ![s] = Respond(q, 201, "Lead created successfully")]
           ELSE /\ slots' = [slots EXCEPT ![s] =
                     SaveErrorResponse(q, outcome, "Failed to create lead")]
                /\ UNCHANGED <<leads, nextId>>
  /\ UNCHANGED wizard

\* The step of updateLead after the checks passed so far.
UpdateNextPc(body, after) ==
  IF after = "start" /\ Truthy(body.email) THEN "chkEmail"
  ELSE IF after \in {"start", "chkEmail"} /\ Truthy(body.phone) THEN "chkPhone"
  ELSE "save"

\* updateLead up to the answer of Lead.findById and the access check.
UpdateStart(s, u, id, body) ==
  /\ Free(s)
  /\ LET q == [kind |-> "update", pc |-> "start", user |-> u, id |-> id, body |-> body,
               resp |-> NoResp]
         found == findById(leads, id)
     IN  slots' = [slots EXCEPT ![s] =
           IF found = {} THEN Respond(q, 404, "Lead not found")
           ELSE LET lead == CHOOSE l \in found : TRUE
                IN  IF AccessDenied(u, lead) THEN Respond(q, 403, "Access denied")
                    ELSE [kind |-> "update", pc |-> UpdateNextPc(body, "start"),
                          user |-> u, id |-> id, body |-> body, lead |-> lead,
                          resp |-> NoResp]]
  /\ UNCHANGED <<leads, nextId>>
  /\ UNCHANGED wizard

\* updateLead: the answer of Lead.findOne({email, _id: {$ne: id}}).
UpdateCheckEmail(s) ==
  /\ slots[s].kind = "update"
  /\ slots[s].pc = "chkEmail"
  /\ LET q == slots[s]
     IN  slots' = [slots EXCEPT ![s] =
           IF \E l \in leads : l.email = toLowerCase(trim(q.body.email)) /\ l.id # q.id
             THEN RespondDuplicate(q, {l \in leads : l.email = toLowerCase(trim(q.body.email))
                                                    /\ l.id # q.id})
             ELSE [q EXCEPT !.pc = UpdateNextPc(q.body, "chkEmail")]]
  /\ UNCHANGED <<leads, nextId>>
  /\ UNCHANGED wizard

\* updateLead: the answer of Lead.findOne({phone, _id: {$ne: id}}).
UpdateCheckPhone(s) ==
  /\ slots[s].kind = "update"
  /\ slots[s].pc = "chkPhone"
  /\ LET q == slots[s]
     IN  slots' = [slots EXCEPT ![s] =
           IF \E l \in leads : l.phone = trim(q.body.phone) /\ l.id # q.id
             THEN RespondDuplicate(q, {l \in leads : l.phone = trim(q.body.phone)
                                                    /\ l.id # q.id})
             ELSE [q EXCEPT !.pc = "save"]]
  /\ UNCHANGED <<leads, nextId>>
  /\ UNCHANGED wizard

\* allowedFields.forEach: the fields given in the request are assigned to the
\* loaded document, through the schema's setters.
ApplyUpdate(lead, body) ==
  [lead EXCEPT
     !.name = IF body.name # undefined THEN SetTrim(body.name) ELSE @,
     !.email = IF body.email # undefined THEN SetEmail(body.email) ELSE @,
     !.phone = IF body.phone # undefined THEN SetTrim(body.phone) ELSE @,
     !.company = IF body.company # undefined THEN SetTrim(body.company) ELSE @,
     !.position = IF body.position # undefined THEN SetTrim(body.position) ELSE @,
     !.source = IF body.source # undefined THEN body.source ELSE @,
     !.status = IF body.status # "undefined" THEN body.status ELSE @,
     !.priority = IF body.priority # undefined THEN body.priority ELSE @]

\* Faulty variant of WriteModified: save() writes the whole document as loaded
\* and changed, its notes included.
WriteWholeDocument(stored, loaded, changed) == changed

\* The paths save() writes: those whose value differs from the loaded one.
WriteModified(stored, loaded, changed) ==
  [stored EXCEPT
     !.name = IF changed.name # loaded.name THEN changed.name ELSE @,
     !.email = IF changed.email # loaded.email THEN changed.email ELSE @,
     !.phone = IF changed.phone # loaded.phone THEN changed.phone ELSE @,
     !.company = IF changed.company # loaded.company THEN changed.company ELSE @,
     !.position = IF changed.position # loaded.position THEN changed.position ELSE @,
     !.source = IF changed.source # loaded.source THEN changed.source ELSE @,
     !.status = IF changed.status # loaded.status THEN changed.status ELSE @,
     !.priority = IF changed.priority # loaded.priority THEN changed.priority ELSE @,
     !.leadScore = IF changed.leadScore # loaded.leadScore THEN changed.leadScore ELSE @]

\* updateLead: lead.save() and the response.
UpdateSave(s) ==
  /\ slots[s].kind = "update"
  /\ slots[s].pc = "save"
  /\ LET q == slots[s]
         assigned == ApplyUpdate(q.lead, q.body)
         changed == preSave(assigned, assigned.status # q.lead.status)
         stored == findById(leads, q.id)
     IN  IF ~ValidateDoc(changed)
           THEN /\ slots' = [slots EXCEPT ![s] =
                     SaveErrorResponse(q, "ValidationError", "Failed to update lead")]
                /\ UNCHANGED <<leads, nextId>>
         ELSE IF stored = {}
           THEN /\ slots' = [slots EXCEPT ![s] =
                     SaveErrorResponse(q, "DocumentNotFoundError", "Failed to update lead")]
                /\ UNCHANGED <<leads, nextId>>
         ELSE LET old == CHOOSE l \in stored : TRUE
                  new == WriteModified(old, q.lead, changed)
              IN  IF DuplicateKey(leads, new) # "none"
                    THEN /\ slots' = [slots EXCEPT ![s] =
                              SaveErrorResponse(q, "E11000", "Failed to update lead")]
                         /\ UNCHANGED <<leads, nextId>>
                    ELSE /\ leads' = (leads \ {old}) \cup {new}
                         /\ slots' = [slots EXCEPT ![s] =
                              Respond(q, 200, "Lead updated successfully")]
                         /\ UNCHANGED nextId
  /\ UNCHANGED wizard

\* Faulty variant of DeleteStart: the role of the user is not checked.
DeleteByAnyone(s, u, id) ==
  /\ Free(s)
  /\ LET q == [kind |-> "delete", pc |-> "delete", user |-> u, id |-> id, resp |-> NoResp]
     IN  slots' = [slots EXCEPT ![s] =
           IF findById(leads, id) = {} THEN Respond(q, 404, "Lead not found")
           ELSE q]
  /\ UNCHANGED <<leads, nextId>>
  /\ UNCHANGED wizard

\* deleteLead up to the answer of Lead.findById (DELETE /:id, admin only).
DeleteStart(s, u, id) ==
  /\ Free(s)
  /\ LET q == [kind |-> "delete", pc |-> "delete", user |-> u, id |-> id, resp |-> NoResp]
     IN  slots' = [slots EXCEPT ![s] =
           IF Role(u) # "admin" THEN Respond(q, 403, "Admin access required")
           ELSE IF findById(leads, id) = {} THEN Respond(q, 404, "Lead not found")
           ELSE q]
  /\ UNCHANGED <<leads, nextId>>
  /\ UNCHANGED wizard

\* deleteLead: Lead.findByIdAndDelete and the response.
DeleteFinish(s) ==
  /\ slots[s].kind = "delete"
  /\ slots[s].pc = "delete"
  /\ leads' = {l \in leads : l.id # slots[s].id}
  /\ slots' = [slots EXCEPT ![s] = Respond(slots[s], 200, "Lead deleted successfully")]
  /\ UNCHANGED nextId
  /\ UNCHANGED wizard

\* assignLeads up to the answer of User.findById (POST /assign, admin only).
AssignStart(s, u, leadIds, assignToUserId) ==
  /\ Free(s)
  /\ LET q == [kind |-> "assign", pc |-> "updateMany", user |-> u, leadIds |-> leadIds,
               assignToUserId |-> assignToUserId, resp |-> NoResp]
     IN  slots' = [slots EXCEPT ![s] =
           IF Role(u) # "admin" THEN Respond(q, 403, "Admin access required")
           ELSE IF leadIds = {} THEN Respond(q, 400, "Lead IDs are required")
           ELSE IF assignToUserId = NoUser THEN Respond(q, 400, "User ID is required")
           ELSE IF assignToUserId \notin Users THEN Respond(q, 404, "User not found")
           ELSE q]
  /\ UNCHANGED <<leads, nextId>>
  /\ UNCHANGED wizard

\* assignLeads: Lead.updateMany sets assignedTo and assignedBy of the leads
\* named; the leads are then read back and sent.
AssignUpdateMany(s) ==
  /\ slots[s].kind = "assign"
  /\ slots[s].pc = "updateMany"
  /\ LET q == slots[s]
     IN  /\ leads' = {IF l.id \in q.leadIds
                        THEN [l EXCEPT !.assignedTo = q.assignToUserId, !.assignedBy = q.user]
                        ELSE l : l \in leads}
         /\ slots' = [slots EXCEPT ![s] = Respond(q, 200, "leads assigned successfully")]
  /\ UNCHANGED nextId
  /\ UNCHANGED wizard

\* addNote up to the answer of Lead.findById and the access check.
NoteStart(s, u, leadId, content) ==
  /\ Free(s)
  /\ LET q == [kind |-> "note", pc |-> "save", user |-> u, id |-> leadId,
               content |-> content, resp |-> NoResp]
         found == findById(leads, leadId)
     IN  slots' = [slots EXCEPT ![s] =
           IF ~Truthy(content) THEN Respond(q, 400, "Lead ID and note content are required")
           ELSE IF Len(trim(content)) < 1 THEN Respond(q, 400, "Note content cannot be empty")
           ELSE IF found = {} THEN Respond(q, 404, "Lead not found")
           ELSE IF AccessDenied(u, CHOOSE l \in found : TRUE)
             THEN Respond(q, 403, "Access denied")
           ELSE q]
  /\ UNCHANGED <<leads, nextId>>
  /\ UNCHANGED wizard

\* leadSchema.methods.addNote: notes.push and save, which appends the note to
\* the stored document.
NoteSave(s) ==
  /\ slots[s].kind = "note"
  /\ slots[s].pc = "save"
  /\ LET q == slots[s]
         stored == findById(leads, q.id)
         note == [content |-> trim(q.content), createdBy |-> q.user]
     IN  IF ~ValidNote(note) \/ stored = {}
           THEN /\ slots' = [slots EXCEPT ![s] = Respond(q, 500, "Failed to add note")]
                /\ UNCHANGED leads
           ELSE LET old == CHOOSE l \in stored : TRUE
                IN  /\ Len(old.notes) < MaxNotes
                    /\ leads' = (leads \ {old}) \cup {[old EXCEPT !.notes = Append(@, note)]}
                    /\ slots' = [slots EXCEPT ![s] = Respond(q, 200, "Note added successfully")]
  /\ UNCHANGED nextId
  /\ UNCHANGED wizard


LeadIds == 1..MaxLeadId

(***************************************************************************)
(* Specifications.                                                         *)
(***************************************************************************)
(***************************************************************************)
(* frontend/src/pages/SmartImportLeads.tsx: the import wizard.             *)
(*                                                                         *)
(* wizard holds the component's state, the requests it has in flight and   *)
(* the name of the handler that ran last (event).  The operator works with *)
(* one workbook; its sheets and the catalog of lead fields are inputs.     *)
(***************************************************************************)

\* Mapping entries the operator keeps at one time.
MaxMappings == 2

\* Requests of one kind (analysis, import) in flight at one time.
MaxInFlight == 1

\* The catalog of lead fields, as loaded on mount (name, label, required).
leadFields ==
  << [name |-> <<"n","a","m","e">>, label |-> <<"N","a","m","e">>, required |-> TRUE],
     [name |-> <<"c","o","m","p","a","n","y">>,
      label |-> <<"C","o","m","p","a","n","y">>, required |-> FALSE] >>

\* The sheets of the workbook as the analysis reports them, with the header
\* row the preview reports: "Company Name", "Name" and "Name", "Firm".
WizardSheets ==
  << [name |-> "S1", hasData |-> TRUE,
      headers |-> << <<"C","o","m","p","a","n","y"," ","N","a","m","e">>,
                     <<"N","a","m","e">> >>],
     [name |-> "S2", hasData |-> TRUE,
      headers |-> << <<"N","a","m","e">>, <<"F","i","r","m">> >>] >>

\* The state of the component when it is mounted.  selectedFile, selectedSheet
\* and sheetPreview are "" while the component holds null or ''.
InitialWizard ==
  [currentStep |-> "upload", selectedFile |-> "", fileAnalysis |-> FALSE,
   selectedSheet |-> "", sheetPreview |-> "", fieldMappings |-> <<>>,
   isLoading |-> FALSE, importResult |-> FALSE,
   analyzing |-> 0, previews |-> {}, importing |-> 0,
   edited |-> FALSE, event |-> "mount"]

\* headers.find over one disjunction of the four rules, for every field of
\* the catalog; a field without header gets an entry only when required.
initializeFieldMappings(headers) ==
  LET Contains(a, b) == \E i \in 0..(Len(a) - Len(b)) : SubSeq(a, i + 1, i + Len(b)) = b
      Matches(header, field) ==
        LET headerLower == trim(toLowerCase(header))
            fieldLower == toLowerCase(field.name)
            labelLower == toLowerCase(field.label)
        IN  \/ headerLower = fieldLower
            \/ headerLower = labelLower
            \/ Contains(headerLower, fieldLower)
            \/ Contains(fieldLower, headerLower)
      Find(field) ==
        LET hits == {i \in 1..Len(headers) : Matches(headers[i], field)}
        IN  IF hits = {} THEN undefined ELSE headers[SetMin(hits)]
      Entry(field) ==
        LET matchedHeader == Find(field)
        IN  IF Truthy(matchedHeader) \/ field.required
            THEN << [leadField |-> field.name,
                     excelColumn |-> IF Truthy(matchedHeader) THEN matchedHeader ELSE <<>>,
                     isRequired |-> field.required] >>
            ELSE <<>>
      RECURSIVE Build(_)
      Build(k) == IF k > Len(leadFields) THEN <<>>
                  ELSE Entry(leadFields[k]) \o Build(k + 1)
  IN  Build(1)

\* No entry marked required is left without a column.
validateMappings(fieldMappings) ==
  \A i \in 1..Len(fieldMappings) :
    fieldMappings[i].isRequired => fieldMappings[i].excelColumn # <<>>

\* The effect on [selectedSheet, selectedFile, currentStep]: after a render in
\* which one of them changed, with a file and a sheet selected in step map,
\* previewSheet sends a preview request for the selected sheet.
Effect(old, new) ==
  IF /\ \/ new.selectedSheet # old.selectedSheet
        \/ new.selectedFile # old.selectedFile
        \/ new.currentStep # old.currentStep
     /\ new.selectedFile # ""
     /\ new.selectedSheet # ""
     /\ new.currentStep = "map"
  THEN [new EXCEPT !.previews = @ \cup {new.selectedSheet}, !.isLoading = TRUE]
  ELSE new

\* The operator chooses a file of an allowed type; the analysis is requested.
HandleFileSelect ==
  /\ wizard.currentStep = "upload"
  /\ ~wizard.isLoading
  /\ wizard.analyzing < MaxInFlight
  /\ wizard' = Effect(wizard, [wizard EXCEPT !.selectedFile = "F",
                                             !.currentStep = "analyze",
                                             !.isLoading = TRUE,
                                             !.analyzing = @ + 1,
                                             !.event = "handleFileSelect"])
  /\ UNCHANGED <<leads, nextId, slots>>

\* The analysis request returns: the first sheet with data is selected and
\* the step becomes map; a failed analysis resets the wizard.
AnalyzeFile(ok) ==
  /\ wizard.analyzing > 0
  /\ LET sheetsWithData == {i \in 1..Len(WizardSheets) : WizardSheets[i].hasData}
         answered == [wizard EXCEPT !.analyzing = @ - 1, !.isLoading = FALSE,
                                    !.event = "analyzeFile"]
     IN  wizard' = Effect(wizard,
           IF ok
           THEN [answered EXCEPT
                   !.fileAnalysis = TRUE,
                   !.selectedSheet = IF sheetsWithData = {} THEN @
                                     ELSE WizardSheets[SetMin(sheetsWithData)].name,
                   !.edited = IF sheetsWithData = {} THEN @
                              ELSE @ /\ WizardSheets[SetMin(sheetsWithData)].name
                                          = wizard.selectedSheet,
                   !.currentStep = "map"]
           ELSE [answered EXCEPT
                   !.currentStep = "upload", !.selectedFile = "",
                   !.fileAnalysis = FALSE, !.selectedSheet = "",
                   !.sheetPreview = "", !.fieldMappings = <<>>,
                   !.importResult = FALSE, !.edited = FALSE])
  /\ UNCHANGED <<leads, nextId, slots>>

\* The operator picks a sheet of the analysed workbook.
HandleSheetChange(sheetName) ==
  /\ wizard.currentStep \in {"analyze", "map"}
  /\ wizard.fileAnalysis
  /\ \E i \in 1..Len(WizardSheets) : WizardSheets[i].name = sheetName
  /\ wizard' = Effect(wizard, [wizard EXCEPT
                                 !.selectedSheet = sheetName,
                                 !.edited = @ /\ sheetName = wizard.selectedSheet,
                                 !.event = "handleSheetChange"])
  /\ UNCHANGED <<leads, nextId, slots>>

\* A preview request returns: the preview is stored and the mapper runs on
\* its headers; a failed preview only shows a message.
PreviewSheet(sheetName, ok) ==
  /\ sheetName \in wizard.previews
  /\ LET i == CHOOSE j \in 1..Len(WizardSheets) : WizardSheets[j].name = sheetName
         answered == [wizard EXCEPT !.previews = @ \ {sheetName}, !.isLoading = FALSE]
     IN  wizard' = Effect(wizard,
           IF ok
           THEN [answered EXCEPT
                   !.sheetPreview = sheetName,
                   !.fieldMappings = initializeFieldMappings(WizardSheets[i].headers),
                   !.edited = FALSE,
                   !.event = "initializeFieldMappings"]
           ELSE [answered EXCEPT !.event = "previewSheet"])
  /\ UNCHANGED <<leads, nextId, slots>>

\* The headers the column select of the mapping editor offers.
PreviewHeaders ==
  LET i == CHOOSE j \in 1..Len(WizardSheets) : WizardSheets[j].name = wizard.sheetPreview
  IN  WizardSheets[i].headers

\* The mapping editor is rendered in step map once a preview is stored.
\* The operator picks another column (or none) in the column select of entry
\* i: every entry of that lead field takes it.
UpdateFieldMapping(i, excelColumn) ==
  /\ wizard.currentStep = "map"
  /\ wizard.sheetPreview # ""
  /\ i \in 1..Len(wizard.fieldMappings)
  /\ excelColumn = <<>> \/ includes(PreviewHeaders, excelColumn)
  /\ excelColumn # wizard.fieldMappings[i].excelColumn
  /\ LET prev == wizard.fieldMappings
     IN  wizard' = Effect(wizard, [wizard EXCEPT
           !.fieldMappings = [j \in 1..Len(prev) |->
                                IF prev[j].leadField = prev[i].leadField
                                THEN [prev[j] EXCEPT !.excelColumn = excelColumn]
                                ELSE prev[j]],
           !.edited = TRUE,
           !.event = "updateFieldMapping"])
  /\ UNCHANGED <<leads, nextId, slots>>

\* Add Mapping: an entry without column for the first field of the catalog
\* that has no entry.
AddFieldMapping ==
  /\ wizard.currentStep = "map"
  /\ wizard.sheetPreview # ""
  /\ Len(wizard.fieldMappings) < MaxMappings
  /\ LET prev == wizard.fieldMappings
         unmappedFields == {k \in 1..Len(leadFields) :
                              ~\E j \in 1..Len(prev) : prev[j].leadField = leadFields[k].name}
     IN  /\ unmappedFields # {}
         /\ wizard' = Effect(wizard, [wizard EXCEPT
              !.fieldMappings = Append(prev,
                 [leadField |-> leadFields[SetMin(unmappedFields)].name,
                  excelColumn |-> <<>>,
                  isRequired |-> leadFields[SetMin(unmappedFields)].required]),
              !.edited = TRUE,
              !.event = "addFieldMapping"])
  /\ UNCHANGED <<leads, nextId, slots>>

\* The remove button, rendered for entries that are not required, drops every
\* entry of that lead field.
RemoveFieldMapping(i) ==
  /\ wizard.currentStep = "map"
  /\ wizard.sheetPreview # ""
  /\ i \in 1..Len(wizard.fieldMappings)
  /\ ~wizard.fieldMappings[i].isRequired
  /\ LET prev == wizard.fieldMappings
         Other(mapping) == mapping.leadField # prev[i].leadField
     IN  wizard' = Effect(wizard, [wizard EXCEPT
           !.fieldMappings = SelectSeq(prev, Other),
           !.edited = TRUE,
           !.event = "removeFieldMapping"])
  /\ UNCHANGED <<leads, nextId, slots>>

\* The lead field select of entry i: the entry takes field k of the catalog
\* and that field's required mark, and keeps its column.
ChangeLeadField(i, k) ==
  /\ wizard.currentStep = "map"
  /\ wizard.sheetPreview # ""
  /\ i \in 1..Len(wizard.fieldMappings)
  /\ k \in 1..Len(leadFields)
  /\ leadFields[k].name # wizard.fieldMappings[i].leadField
  /\ wizard' = Effect(wizard, [wizard EXCEPT
       !.fieldMappings[i] = [@ EXCEPT !.leadField = leadFields[k].name,
                                      !.isRequired = leadFields[k].required],
       !.edited = TRUE,
       !.event = "changeLeadField"])
  /\ UNCHANGED <<leads, nextId, slots>>

\* Preview Data: the step becomes preview when the mappings validate.
PreviewData ==
  /\ wizard.currentStep = "map"
  /\ wizard.sheetPreview # ""
  /\ validateMappings(wizard.fieldMappings)
  /\ wizard' = Effect(wizard, [wizard EXCEPT !.currentStep = "preview",
                                             !.event = "previewData"])
  /\ UNCHANGED <<leads, nextId, slots>>

\* Back to Mapping, in step preview.
BackToMapping ==
  /\ wizard.currentStep = "preview"
  /\ wizard.sheetPreview # ""
  /\ wizard' = Effect(wizard, [wizard EXCEPT !.currentStep = "map",
                                             !.event = "backToMapping"])
  /\ UNCHANGED <<leads, nextId, slots>>

\* Import Leads, in step preview and enabled while nothing is loading: with a
\* file, a sheet and validated mappings the import request is sent.
ExecuteImport ==
  /\ wizard.currentStep = "preview"
  /\ wizard.sheetPreview # ""
  /\ ~wizard.isLoading
  /\ wizard.importing < MaxInFlight
  /\ wizard.selectedFile # ""
  /\ wizard.selectedSheet # ""
  /\ validateMappings(wizard.fieldMappings)
  /\ wizard' = Effect(wizard, [wizard EXCEPT !.isLoading = TRUE,
                                             !.currentStep = "import",
                                             !.importing = @ + 1,
                                             !.event = "executeImport"])
  /\ UNCHANGED <<leads, nextId, slots>>

\* The import request returns: its result is stored and the step becomes
\* complete; a request that throws puts the step back to map.
ImportWithMapping(ok) ==
  /\ wizard.importing > 0
  /\ LET answered == [wizard EXCEPT !.importing = @ - 1, !.isLoading = FALSE,
                                    !.event = "importWithMapping"]
     IN  wizard' = Effect(wizard,
           IF ok THEN [answered EXCEPT !.importResult = TRUE, !.currentStep = "complete"]
           ELSE [answered EXCEPT !.currentStep = "map"])
  /\ UNCHANGED <<leads, nextId, slots>>

\* Start Over, rendered in every step but upload, and Import Another File of
\* step complete: the requests in flight are not cancelled.
ResetImport ==
  /\ wizard.currentStep # "upload"
  /\ wizard' = Effect(wizard, [wizard EXCEPT
       !.currentStep = "upload", !.selectedFile = "",
       !.fileAnalysis = FALSE, !.selectedSheet = "",
       !.sheetPreview = "", !.fieldMappings = <<>>,
       !.importResult = FALSE, !.edited = FALSE,
       !.event = "resetImport"])
  /\ UNCHANGED <<leads, nextId, slots>>

Slots == {1, 2}

Init ==
  /\ leads = {}
  /\ nextId = 1
  /\ slots = [s \in Slots |-> IdleSlot]
  /\ wizard = InitialWizard

\* The steps of the handlers in flight in slot s.
Continue(s) ==
  \/ ImportRow(s)
  \/ ImportFinish(s)
  \/ CreateFindPhone(s)
  \/ CreateSave(s)
  \/ UpdateCheckEmail(s)
  \/ UpdateCheckPhone(s)
  \/ UpdateSave(s)
  \/ DeleteFinish(s)
  \/ AssignUpdateMany(s)
  \/ NoteSave(s)

\* Requests served one at a time: one connection, the next request is sent
\* when the previous one has been answered.
NextSeq ==
  \/ \E u \in Admins, sheet \in SeqSheets : ImportStart(1, u, sheet)
  \/ ImportAgain(1)
  \/ \E u \in Users, body \in SeqCreateBodies : CreateStart(1, u, body)
  \/ \E u \in Users, id \in LeadIds : DeleteStart(1, u, id)
  \/ ImportRow(1)
  \/ ImportFinish(1)
  \/ CreateFindPhone(1)
  \/ CreateSave(1)
  \/ DeleteFinish(1)

SpecSeq == Init /\ [][NextSeq]_vars

\* Two requests in flight: their database operations interleave freely.
\* Updates, deletions, assignments and notes address leads of the collection;
\* assignments and notes address the first lead.
Next ==
  \E s \in Slots :
    \/ \E sheet \in RaceSheets : ImportStart(s, "admin", sheet)
    \/ \E body \in RaceCreateBodies : CreateStart(s, "user", body)
    \/ \E l \in leads, body \in RaceUpdateBodies : UpdateStart(s, "admin", l.id, body)
    \/ \E u \in Users, l \in leads : DeleteStart(s, u, l.id)
    \/ \E l \in leads : l.id = 1 /\ AssignStart(s, "admin", {l.id}, "user")
    \/ \E l \in leads : l.id = 1 /\ NoteStart(s, "user", l.id, <<"o","k">>)
    \/ Continue(s)

Spec == Init /\ [][Next]_vars

\* Two requests in flight, among them updates of one lead that overtake one
\* another between the load of the document and its save.
NextUpdate ==
  \E s \in Slots :
    \/ \E sheet \in RaceSheets : ImportStart(s, "admin", sheet)
    \/ \E body \in RaceCreateBodies : CreateStart(s, "user", body)
    \/ \E l \in leads, body \in StaleUpdateBodies : UpdateStart(s, "admin", l.id, body)
    \/ ImportRow(s)
    \/ ImportFinish(s)
    \/ CreateFindPhone(s)
    \/ CreateSave(s)
    \/ UpdateCheckEmail(s)
    \/ UpdateCheckPhone(s)
    \/ UpdateSave(s)

SpecUpdate == Init /\ [][NextUpdate]_vars

\* Two imports in flight, of files that may be unreadable or empty, with a
\* database and a file system that may fail.
NextFile ==
  \E s \in Slots :
    \/ \E upload \in FileUploads : ImportUnreadable(s, "admin", upload)
    \/ \E upload \in FileUploads : ImportNoWorksheet(s, "admin", upload)
    \/ \E upload \in FileUploads : ImportWorkbook(s, "admin", upload)
    \/ \E upload \in FileUploads : ImportFindFails(s, "admin", upload)
    \/ ImportRow(s)
    \/ ImportFinish(s)
    \/ ImportUnlinkThrows(s)

SpecFile == Init /\ [][NextFile]_vars

\* Two requests in flight on leads that receive notes while they are updated
\* and assigned.
NextNotes ==
  \E s \in Slots :
    \/ \E body \in NoteCreateBodies : CreateStart(s, "admin", body)
    \/ \E l \in leads, body \in RaceUpdateBodies : UpdateStart(s, "admin", l.id, body)
    \/ \E l \in leads : AssignStart(s, "admin", {l.id}, "user")
    \/ \E u \in Users, l \in leads, content \in NoteContents : NoteStart(s, u, l.id, content)
    \/ CreateFindPhone(s)
    \/ CreateSave(s)
    \/ UpdateCheckEmail(s)
    \/ UpdateCheckPhone(s)
    \/ UpdateSave(s)
    \/ AssignUpdateMany(s)
    \/ NoteSave(s)

SpecNotes == Init /\ [][NextNotes]_vars

\* The import wizard alone: the operator's clicks and the answers of the
\* analysis, preview and import requests, in any order.
NextWizard ==
  \/ HandleFileSelect
  \/ \E ok \in BOOLEAN : AnalyzeFile(ok)
  \/ \E i \in 1..Len(WizardSheets) : HandleSheetChange(WizardSheets[i].name)
  \/ \E sheetName \in wizard.previews, ok \in BOOLEAN : PreviewSheet(sheetName, ok)
  \/ \E i \in 1..Len(wizard.fieldMappings),
        excelColumn \in {<<>>} \cup {WizardSheets[a].headers[b] :
                                       a \in 1..Len(WizardSheets), b \in 1..2} :
       UpdateFieldMapping(i, excelColumn)
  \/ AddFieldMapping
  \/ \E i \in 1..Len(wizard.fieldMappings) : RemoveFieldMapping(i)
  \/ \E i \in 1..Len(wizard.fieldMappings), k \in 1..Len(leadFields) : ChangeLeadField(i, k)
  \/ PreviewData
  \/ BackToMapping
  \/ ExecuteImport
  \/ \E ok \in BOOLEAN : ImportWithMapping(ok)
  \/ ResetImport

SpecWizard == Init /\ [][NextWizard]_vars

(***************************************************************************)
(* Properties of the import report.                                        *)
(***************************************************************************)
\* The slot holds an import that has been answered with its report.
ImportReported(q) == q.kind = "import" /\ q.pc = "done" /\ q.resp.status = 200

\* The leads the collection held when the import in q began, for imports
\* served one at a time: all but the ones it created.
StartStore(q, store) ==
  {l \in store : \A j \in 1..Len(q.createdLeads) : q.createdLeads[j].id # l.id}

\* The lead the row number of an error of the loop points to.
Names(q, error, leadData) ==
  /\ error.row - 1 \in 1..Len(q.validLeads)
  /\ q.validLeads[error.row - 1].email = leadData.email

\* The errors of the report that say the email already exists in the database.
ExistsErrors(errors, email) ==
  {i \in 1..Len(errors) : errors[i].message = Msg("exists", email)}

\* C1: in the report of every import answered 200, successfulImports plus
\* failedImports equals totalRows.
C1_ReportAddsUp ==
  \A s \in Slots :
    ImportReported(slots[s]) =>
      LET r == slots[s].resp.data
      IN  r.successfulImports + r.failedImports = r.totalRows

\* An import has been answered that created a lead and rejected a row with
\* two validation errors: more error entries than failed rows.
C1_Witness ==
  \E s \in Slots :
    /\ ImportReported(slots[s])
    /\ slots[s].resp.data.successfulImports > 0
    /\ slots[s].resp.data.failedImports > 0
    /\ Len(slots[s].resp.data.errors) > slots[s].resp.data.failedImports

(***************************************************************************)
(* Properties of the collection under concurrent requests.                 *)
(***************************************************************************)
\* C2: whatever requests have run and however their steps interleaved, no two
\* stored leads have the same email and no two have the same phone.
C2_UniqueEmailPhone ==
  \A a, b \in leads : a # b => a.id # b.id /\ a.email # b.email /\ a.phone # b.phone

\* Two leads are stored, an import lost a write to a racing request and an
\* update that asked for another lead's email or phone was refused.
C2_Witness ==
  /\ Cardinality(leads) = 2
  /\ \E s \in Slots :
       /\ slots[s].kind = "import"
       /\ \E i \in 1..Len(slots[s].errors) : slots[s].errors[i].message.kind = "E11000"
  /\ \E s \in Slots :
       /\ slots[s].kind = "update"
       /\ slots[s].pc = "done"
       /\ slots[s].resp.status = 400

\* The step answers the updateLead request of slot s with 200.
UpdateSucceeds(s) ==
  /\ slots[s].kind = "update"
  /\ slots[s].pc = "save"
  /\ slots'[s].pc = "done"
  /\ slots'[s].resp.status = 200

\* C3: whenever a save of updateLead changes a lead's status, the lead is
\* stored with the score the table gives for the new status (Closed-Lost: 0).
C3_ScoreFollowsStatus ==
  [][\A s \in Slots :
       UpdateSucceeds(s) =>
         \A old \in leads, new \in leads' :
           (old.id = slots[s].id /\ new.id = old.id /\ new.status # old.status)
             => new.leadScore = scoreMap(new.status)]_vars

(***************************************************************************)
(* Properties of the duplicate checks of createLead and updateLead.        *)
(***************************************************************************)
\* The step answers the request of the given kind held in slot s.
Answers(s, kind) ==
  /\ slots'[s] # slots[s]
  /\ slots'[s].kind = kind
  /\ slots'[s].pc = "done"

DuplicateRejection(resp) ==
  resp.status = 400 /\ resp.message = "Duplicate lead detected"

\* The createLead request carries the email or the phone of a stored lead.
CreateCollides(body) ==
  \E l \in leads : l.email = SetEmail(body.email) \/ l.phone = SetTrim(body.phone)

\* The createLead request has its required fields and makes a valid document.
CreateAcceptable(q) ==
  /\ Truthy(q.body.name) /\ Truthy(q.body.email) /\ Truthy(q.body.phone)
  /\ ValidateDoc(NewCreatedLead(nextId, q.body, q.user))

\* The updateLead request carries the email or the phone of another stored lead.
UpdateCollides(q) ==
  \E l \in leads :
    /\ l.id # q.id
    /\ \/ Truthy(q.body.email) /\ l.email = SetEmail(q.body.email)
       \/ Truthy(q.body.phone) /\ l.phone = SetTrim(q.body.phone)

\* The updateLead request changes the email or the phone of the lead it
\* loaded to that of another stored lead.
UpdateTakes(q) ==
  LET w == ApplyUpdate(q.lead, q.body)
  IN  \E l \in leads :
        /\ l.id # q.id
        /\ \/ w.email # q.lead.email /\ l.email = w.email
           \/ w.phone # q.lead.phone /\ l.phone = w.phone

\* The updateLead request found its lead, which is still stored, and makes a
\* valid document of it.
UpdateAcceptable(q) ==
  /\ findById(leads, q.id) # {}
  /\ LET w == ApplyUpdate(q.lead, q.body)
     IN  ValidateDoc(preSave(w, w.status # q.lead.status))

\* The updateLead request in slot s was let in: its lead was found and the
\* user may change it.
LetIn(q) == q.resp.status \notin {403, 404}

\* C4, as amended: a createLead request that carries the email or phone of a
\* stored lead, and an updateLead request that changes the email or phone of
\* the lead it loaded to that of another stored lead, leaves every stored lead
\* unchanged and is not answered with success; when the request is otherwise
\* acceptable the answer is 400 'Duplicate lead detected'.
C4_DuplicateRejected ==
  [][\A s \in Slots :
       /\ (Answers(s, "create") /\ CreateCollides(slots'[s].body)) =>
            /\ leads' = leads
            /\ slots'[s].resp.status # 201
            /\ CreateAcceptable(slots'[s]) => DuplicateRejection(slots'[s].resp)
       /\ (Answers(s, "update") /\ LetIn(slots'[s]) /\ UpdateTakes(slots'[s])) =>
            /\ leads' = leads
            /\ slots'[s].resp.status # 200
            /\ UpdateAcceptable(slots'[s]) => DuplicateRejection(slots'[s].resp)]_vars

\* A createLead was refused by its own check, which found the lead, and an
\* updateLead was refused by the unique index at its save, after its checks
\* had found no duplicate: its answer carries no existing lead.
C4_Witness ==
  /\ \E s \in Slots :
       /\ slots[s].kind = "create"
       /\ slots[s].pc = "done"
       /\ DuplicateRejection(slots[s].resp)
       /\ "data" \in DOMAIN slots[s].resp
  /\ \E s \in Slots :
       /\ slots[s].kind = "update"
       /\ slots[s].pc = "done"
       /\ DuplicateRejection(slots[s].resp)
       /\ "data" \notin DOMAIN slots[s].resp

\* C4, as stated: every createLead or updateLead request whose email or phone
\* equals that of another stored lead is answered 400 'Duplicate lead
\* detected' and leaves every stored lead unchanged.
C4_AsStated ==
  [][\A s \in Slots :
       /\ (Answers(s, "create") /\ CreateCollides(slots'[s].body)
             /\ CreateAcceptable(slots'[s])) =>
            leads' = leads /\ DuplicateRejection(slots'[s].resp)
       /\ (Answers(s, "update") /\ LetIn(slots'[s]) /\ UpdateCollides(slots'[s])
             /\ UpdateAcceptable(slots'[s])) =>
            leads' = leads /\ DuplicateRejection(slots'[s].resp)]_vars
(***************************************************************************)
(* Properties of the loop of importFromExcel.                              *)
(***************************************************************************)
\* The import in slot s is about to handle a row that Lead.find did not report.
SavesRow(s) ==
  /\ slots[s].kind = "import"
  /\ slots[s].pc = "loop"
  /\ slots[s].k <= Len(slots[s].uniqueValidLeads)
  /\ slots[s].uniqueValidLeads[slots[s].k].email \notin slots[s].existingEmailSet

\* The outcome of the save the import in slot s is about to make.
RowOutcome(s) ==
  SaveOutcome(leads, NewImportedLead(nextId, slots[s].uniqueValidLeads[slots[s].k],
                                     slots[s].user))

\* The step of slot s adds to the errors of the import exactly one entry, of
\* the given field and kind, for the row the import was handling; the import
\* creates nothing, changes no lead and goes to its next row.
RecordsAndGoesOn(s, field, kinds) ==
  LET q == slots[s]
      e == slots'[s].errors[Len(slots'[s].errors)]
  IN  /\ leads' = leads
      /\ slots'[s].pc = "loop"
      /\ slots'[s].k = q.k + 1
      /\ slots'[s].createdLeads = q.createdLeads
      /\ Len(slots'[s].errors) = Len(q.errors) + 1
      /\ SubSeq(slots'[s].errors, 1, Len(q.errors)) = q.errors
      /\ e.field = field
      /\ e.message.kind \in kinds
      /\ Names(q, e, q.uniqueValidLeads[q.k])

\* Every row the loop has passed was handled once: it gave one created lead
\* or one error of the loop.
HandledOnce(q) ==
  q.kind = "import" =>
    Len(q.createdLeads) + (Len(q.errors) - Len(SheetAnalysis[q.file].errors)) = q.k - 1

\* C5: with imports and createLead requests racing on the same email or
\* phone, the collection never holds two leads with that value; an import
\* whose save is refused by the unique index records one 'database' error for
\* that row, writes nothing, does not handle the row again and goes on with
\* the rows that remain.
C5_LostWriteReported ==
  [][/\ \A a, b \in leads' : a # b => a.email # b.email /\ a.phone # b.phone
     /\ \A s \in Slots :
          /\ (SavesRow(s) /\ RowOutcome(s) = "E11000" /\ slots'[s] # slots[s]) =>
               RecordsAndGoesOn(s, "database", {"E11000"})
          /\ HandledOnce(slots'[s])
          /\ ImportReported(slots'[s]) =>
               slots'[s].k = Len(slots'[s].uniqueValidLeads) + 1]_vars

\* An import has been answered whose first save lost to a racing request and
\* whose later row was created.
C5_Witness ==
  \E s \in Slots :
    /\ ImportReported(slots[s])
    /\ \E i \in 1..Len(slots[s].errors), j \in 1..Len(slots[s].createdLeads) :
         /\ slots[s].errors[i].message.kind = "E11000"
         /\ findIndex(slots[s].validLeads, slots[s].createdLeads[j].email) + 1
              > slots[s].errors[i].row

\* C6: when the save of a row fails, for whatever reason, the import records
\* one 'database' error for that row and goes on to the next row; the import
\* ends with every row handled and is answered 200 with its report.
C6_FailedSaveRecorded ==
  [][\A s \in Slots :
       /\ (SavesRow(s) /\ RowOutcome(s) # "ok" /\ slots'[s] # slots[s]) =>
            RecordsAndGoesOn(s, "database", {"ValidationError", "E11000"})
       /\ (slots'[s].kind = "import" /\ slots'[s].pc = "done") =>
            /\ slots'[s].k = Len(slots'[s].uniqueValidLeads) + 1
            /\ slots'[s].resp.status = 200
            /\ slots'[s].resp.data.success
            /\ slots'[s].resp.data.errors = slots'[s].errors]_vars

\* An import has been answered in which the save of one row failed its
\* validation and a later row was created.
C6_Witness ==
  \E s \in Slots :
    /\ ImportReported(slots[s])
    /\ \E i \in 1..Len(slots[s].resp.data.errors), j \in 1..Len(slots[s].resp.data.leads) :
         /\ slots[s].resp.data.errors[i].field = "database"
         /\ slots[s].resp.data.errors[i].message.kind = "ValidationError"
         /\ findIndex(slots[s].validLeads, slots[s].resp.data.leads[j].email) + 1
              > slots[s].resp.data.errors[i].row

\* C7: a lead created by an import stays in the collection whatever happens to
\* the later rows, and the report of the import lists it.
C7_NoRollback ==
  \A s \in Slots :
    slots[s].kind = "import" =>
      /\ \A j \in 1..Len(slots[s].createdLeads) : slots[s].createdLeads[j] \in leads
      /\ ImportReported(slots[s]) =>
           /\ slots[s].resp.data.leads = slots[s].createdLeads
           /\ slots[s].resp.data.successfulImports = Len(slots[s].createdLeads)

\* An import has been answered in which the save of a row failed after an
\* earlier row had been created: the lead is stored and listed.
C7_Witness ==
  \E s \in Slots :
    /\ ImportReported(slots[s])
    /\ \E i \in 1..Len(slots[s].resp.data.errors), j \in 1..Len(slots[s].resp.data.leads) :
         /\ slots[s].resp.data.errors[i].field = "database"
         /\ findIndex(slots[s].validLeads, slots[s].resp.data.leads[j].email) + 1
              < slots[s].resp.data.errors[i].row
         /\ slots[s].resp.data.leads[j] \in leads
(***************************************************************************)
(* Properties of imports that meet leads already stored.                   *)
(***************************************************************************)
\* The import in slot s is about to handle a row whose email a stored lead has.
MeetsStoredLead(s) ==
  /\ slots[s].kind = "import"
  /\ slots[s].pc = "loop"
  /\ slots[s].k <= Len(slots[s].uniqueValidLeads)
  /\ \E l \in leads : l.email = slots[s].uniqueValidLeads[slots[s].k].email

\* The report of q has exactly one 'already exists in database' error naming
\* the email, and no lead of that email was created.
ReportedAsExisting(q, email) ==
  /\ Cardinality(ExistsErrors(q.resp.data.errors, email)) = 1
  /\ \A j \in 1..Len(q.resp.data.leads) : q.resp.data.leads[j].email # email

\* C8, as amended: when a row that passed validation has the email of a lead
\* already stored, the import creates no lead from it, changes no stored
\* lead, and its report has exactly one 'already exists in database' error
\* naming that email.
C8_ExistingRowSkipped ==
  [][\A s \in Slots :
       /\ (MeetsStoredLead(s) /\ slots'[s] # slots[s]) =>
            /\ RecordsAndGoesOn(s, "email", {"exists"})
            /\ slots'[s].errors[Len(slots'[s].errors)].message.arg
                 = slots[s].uniqueValidLeads[slots[s].k].email
       /\ ImportReported(slots'[s]) =>
            \A i \in 1..Len(slots'[s].validLeads) :
              (\E l \in StartStore(slots'[s], leads') :
                 l.email = slots'[s].validLeads[i].email)
                => ReportedAsExisting(slots'[s], slots'[s].validLeads[i].email)]_vars

\* An import has been answered that met a stored lead whose name and phone
\* differ from the row's: the lead is stored as it was, the report has the
\* 'already exists' error and a lead created from another row.
C8_Witness ==
  \E s \in Slots :
    /\ ImportReported(slots[s])
    /\ Len(slots[s].resp.data.leads) > 0
    /\ \E i \in 1..Len(slots[s].validLeads), l \in StartStore(slots[s], leads) :
         /\ l.email = slots[s].validLeads[i].email
         /\ l.name # slots[s].validLeads[i].name
         /\ l.phone # slots[s].validLeads[i].phone
         /\ ExistsErrors(slots[s].resp.data.errors, l.email) # {}

\* C8, as stated: for every row of the file whose normalized email is the
\* email of a lead already stored, no lead is created and the report has an
\* 'already exists in database' error for that email.
C8_AsStated ==
  \A s \in Slots :
    ImportReported(slots[s]) =>
      LET jsonData == ParseSheet(slots[s].file)
      IN  \A i \in 1..Len(jsonData) :
            (/\ Truthy(jsonData[i].email)
             /\ \E l \in StartStore(slots[s], leads) :
                  l.email = toLowerCase(trim(jsonData[i].email)))
              => ReportedAsExisting(slots[s], toLowerCase(trim(jsonData[i].email)))

\* C9: the file of Scenario A, imported into a collection that holds none of
\* its emails and phones, gives totalRows 3, successfulImports 2,
\* failedImports 1 and a single error, at row 4, for the email duplicated
\* within the file.
C9_ScenarioA ==
  \A s \in Slots :
    (/\ ImportReported(slots[s])
     /\ slots[s].file = ScenarioA
     /\ \A l \in StartStore(slots[s], leads) :
          /\ l.email \notin {eAnn, eBo}
          /\ l.phone \notin {p5551, p5552, p5553})
      => LET r == slots[s].resp.data
         IN  /\ r.totalRows = 3
             /\ r.successfulImports = 2
             /\ r.failedImports = 1
             /\ Len(r.errors) = 1
             /\ r.errors[1].row = 4
             /\ r.errors[1].field = "email"
             /\ r.errors[1].message.kind = "dupfile"

\* The second import of a file reports no success and one 'already exists in
\* database' error for every row of the file, and no other error.
AllReportedAsExisting(q) ==
  LET r == q.resp.data
      jsonData == ParseSheet(q.file)
  IN  /\ r.successfulImports = 0
      /\ Len(r.errors) = r.totalRows
      /\ \A i \in 1..Len(r.errors) : r.errors[i].message.kind = "exists"
      /\ \A i \in 1..Len(jsonData) :
           /\ Truthy(jsonData[i].email)
           /\ Cardinality(ExistsErrors(r.errors, toLowerCase(trim(jsonData[i].email)))) = 1

\* C10, as amended: when a file is imported twice in succession and the first
\* import created a lead from every row (successfulImports = totalRows), the
\* second import reports successfulImports 0 and exactly one 'already exists
\* in database' error for every row.
C10_SecondImportAllExisting ==
  \A s \in Slots :
    (/\ ImportReported(slots[s])
     /\ slots[s].prev # <<>>
     /\ slots[s].prev[1].successfulImports = slots[s].prev[1].totalRows)
      => AllReportedAsExisting(slots[s])

\* A file of two rows has been imported twice in succession, the first import
\* having created both leads.
C10_Witness ==
  \E s \in Slots :
    /\ ImportReported(slots[s])
    /\ slots[s].prev # <<>>
    /\ slots[s].prev[1].totalRows = 2
    /\ slots[s].prev[1].successfulImports = 2

\* C10, as stated: whenever a file is imported twice in succession, the second
\* import reports successfulImports 0 and exactly one 'already exists in
\* database' error for every row.
C10_AsStated ==
  \A s \in Slots :
    (ImportReported(slots[s]) /\ slots[s].prev # <<>>)
      => AllReportedAsExisting(slots[s])
(***************************************************************************)
(* Properties of the rows of a file and the entries of its report.         *)
(***************************************************************************)
\* Row i of the parsed rows passes validateAndNormalizeLeadRow.
RowValid(jsonData, i) == validateAndNormalizeLeadRow(jsonData[i], i + 1).isValid

\* The place of the valid row i among the validated rows.
ValidIndex(jsonData, i) == Cardinality({h \in 1..i : RowValid(jsonData, h)})

\* Row i was imported: it is valid, it is the first valid row with its email
\* and the report lists a lead with that email.
RowImported(q, jsonData, i) ==
  /\ RowValid(jsonData, i)
  /\ LET j == ValidIndex(jsonData, i)
     IN  /\ findIndex(q.validLeads, q.validLeads[j].email) = j
         /\ \E c \in 1..Len(q.resp.data.leads) :
              q.resp.data.leads[c].email = q.validLeads[j].email

\* The entries of the report that row i produced: its validation errors, which
\* carry its place among the parsed rows, or its duplicate, already-exists or
\* save error, which carries its place among the validated rows.
EntriesOf(q, jsonData, i) ==
  LET errors == q.resp.data.errors
  IN  IF RowValid(jsonData, i)
        THEN {e \in 1..Len(errors) :
                /\ errors[e].message.kind \in {"dupfile", "exists", "ValidationError", "E11000"}
                /\ errors[e].row = ValidIndex(jsonData, i) + 1}
        ELSE {e \in 1..Len(errors) :
                /\ errors[e].message.kind \in {"required", "format", "enum"}
                /\ errors[e].row = i + 1}

\* C11: in the report of every completed import, failedImports counts the
\* rows that were not imported, each of these rows produced at least one
\* entry of errors, no imported row produced any, and every entry was
\* produced by some row.
C11_FailingRowsListed ==
  \A s \in Slots :
    ImportReported(slots[s]) =>
      LET q == slots[s]
          jsonData == ParseSheet(q.file)
          rows == 1..Len(jsonData)
      IN  /\ q.resp.data.failedImports
               = Cardinality({i \in rows : ~RowImported(q, jsonData, i)})
          /\ \A i \in rows :
               IF RowImported(q, jsonData, i)
                 THEN EntriesOf(q, jsonData, i) = {}
                 ELSE EntriesOf(q, jsonData, i) # {}
          /\ \A e \in 1..Len(q.resp.data.errors) :
               \E i \in rows : e \in EntriesOf(q, jsonData, i)

\* An import has been answered that imported one row, rejected one at
\* validation and one as a duplicate within the file.
C11_Witness ==
  \E s \in Slots :
    /\ ImportReported(slots[s])
    /\ slots[s].resp.data.successfulImports > 0
    /\ \E e1, e2 \in 1..Len(slots[s].resp.data.errors) :
         /\ slots[s].resp.data.errors[e1].message.kind \in {"required", "format", "enum"}
         /\ slots[s].resp.data.errors[e2].message.kind = "dupfile"
\* C12: an imported row whose name and email are valid and whose phone is any
\* non-empty string is never rejected because of the phone's format: no save
\* of such a row fails validation.
C12_PhoneFormatFree ==
  \A s \in Slots :
    ImportReported(slots[s]) =>
      \A e \in 1..Len(slots[s].resp.data.errors) :
        LET error == slots[s].resp.data.errors[e]
        IN  error.message.kind = "ValidationError" =>
              LET leadData == slots[s].validLeads[error.row - 1]
              IN  ~(/\ ValidName(leadData.name)
                    /\ ValidEmail(leadData.email)
                    /\ Truthy(leadData.phone))

(***************************************************************************)
(* Properties of the validation of a row.                                  *)
(***************************************************************************)
\* The cell is absent or blank.
Missing(cell) == cell = undefined \/ trim(cell) = <<>>

\* The required fields of a row that are missing or badly formed.
FieldsInError(row) ==
  {f \in {"name"} : Missing(row.name)}
    \cup {f \in {"email"} : Missing(row.email) \/ ~emailRegex(trim(row.email))}
    \cup {f \in {"phone"} : Missing(row.phone)}

\* The lead carries the normalized name, email and phone of the row.
RecordOf(row, l) ==
  /\ l.name = trim(row.name)
  /\ l.email = toLowerCase(trim(row.email))
  /\ l.phone = trim(row.phone)

\* C13: the validation of a row yields either a normalized record or a
\* non-empty list of errors, never both; a row with a required field missing
\* or an ill-formed email yields no record, every such field of it has an
\* error in the report, and every lead the import stored or reported carries
\* the record of a row without such a field.
C13_RecordOrErrors ==
  \A s \in Slots :
    ImportReported(slots[s]) =>
      LET q == slots[s]
          jsonData == ParseSheet(q.file)
          report == q.resp.data
      IN  /\ \A i \in 1..Len(jsonData) :
               LET v == validateAndNormalizeLeadRow(jsonData[i], i + 1)
               IN  /\ ("lead" \in DOMAIN v) # (v.errors # <<>>)
                   /\ FieldsInError(jsonData[i]) # {} =>
                        /\ "lead" \notin DOMAIN v
                        /\ \A f \in FieldsInError(jsonData[i]) :
                             \E e \in 1..Len(report.errors) :
                               /\ report.errors[e].row = i + 1
                               /\ report.errors[e].field = f
                               /\ report.errors[e].message.kind \in {"required", "format"}
          /\ \A l \in (leads \ StartStore(q, leads))
                        \cup {report.leads[c] : c \in 1..Len(report.leads)} :
               \E i \in 1..Len(jsonData) :
                 /\ FieldsInError(jsonData[i]) = {}
                 /\ RecordOf(jsonData[i], l)

\* An import has been answered whose file had a row with two fields in error,
\* both in the report, and a row that was stored.
C13_Witness ==
  \E s \in Slots :
    /\ ImportReported(slots[s])
    /\ slots[s].resp.data.leads # <<>>
    /\ \E i \in 1..Len(ParseSheet(slots[s].file)) :
         /\ Cardinality(FieldsInError(ParseSheet(slots[s].file)[i])) = 2
         /\ \A f \in FieldsInError(ParseSheet(slots[s].file)[i]) :
              \E e \in 1..Len(slots[s].resp.data.errors) :
                /\ slots[s].resp.data.errors[e].row = i + 1
                /\ slots[s].resp.data.errors[e].field = f

(***************************************************************************)
(* Properties of the source and priority columns.                          *)
(***************************************************************************)
\* The cell holds a value.
Supplied(cell) == cell # undefined /\ cell # <<>>

\* The lead the import created for row i of the file.
CreatedFor(q, jsonData, i) ==
  LET email == q.validLeads[ValidIndex(jsonData, i)].email
  IN  CHOOSE l \in {q.resp.data.leads[c] : c \in 1..Len(q.resp.data.leads)} : l.email = email

\* The row has an error on the field that lists the allowed values.
EnumError(report, i, field, allowed) ==
  \E e \in 1..Len(report.errors) :
    /\ report.errors[e].row = i + 1
    /\ report.errors[e].field = field
    /\ report.errors[e].message = Msg("enum", join(allowed, <<",", " ">>))

\* C14: a row whose source or priority is supplied and, trimmed, is not
\* exactly one of the allowed values is not imported and has an error on that
\* field listing the allowed values; an omitted source or priority is no
\* error, and the lead created for a row has the supplied value trimmed, or
\* source 'Import' and priority 'Medium' when the value is omitted.
C14_SourceAndPriority ==
  \A s \in Slots :
    ImportReported(slots[s]) =>
      LET q == slots[s]
          jsonData == ParseSheet(q.file)
          report == q.resp.data
      IN  \A i \in 1..Len(jsonData) :
            LET row == jsonData[i]
                badSource == Supplied(row.source)
                               /\ \A a \in 1..Len(validSources) : validSources[a] # trim(row.source)
                badPriority == Supplied(row.priority)
                                 /\ \A a \in 1..Len(validPriorities) : validPriorities[a] # trim(row.priority)
            IN  /\ badSource <=> EnumError(report, i, "source", validSources)
                /\ badPriority <=> EnumError(report, i, "priority", validPriorities)
                /\ badSource \/ badPriority => ~RowImported(q, jsonData, i)
                /\ RowImported(q, jsonData, i) =>
                     /\ CreatedFor(q, jsonData, i).source =
                          IF Supplied(row.source) THEN trim(row.source) ELSE <<"I","m","p","o","r","t">>
                     /\ CreatedFor(q, jsonData, i).priority =
                          IF Supplied(row.priority) THEN trim(row.priority) ELSE <<"M","e","d","i","u","m">>

\* An import has been answered that rejected a row for its lower-case source
\* and priority, created a lead with a supplied source and one with the
\* defaults.
C14_Witness ==
  \E s \in Slots :
    /\ ImportReported(slots[s])
    /\ \E e \in 1..Len(slots[s].resp.data.errors) :
         slots[s].resp.data.errors[e].field = "source"
    /\ \E e \in 1..Len(slots[s].resp.data.errors) :
         slots[s].resp.data.errors[e].field = "priority"
    /\ \E c, d \in 1..Len(slots[s].resp.data.leads) :
         /\ slots[s].resp.data.leads[c].source = <<"W","e","b","s","i","t","e">>
         /\ slots[s].resp.data.leads[d].source = <<"I","m","p","o","r","t">>
         /\ slots[s].resp.data.leads[d].priority = <<"M","e","d","i","u","m">>

(***************************************************************************)
(* Properties of the leads an import creates.                              *)
(***************************************************************************)
\* The import in slot s stores a lead in this step.
ImportCreates(s) ==
  /\ slots[s].kind = "import"
  /\ slots[s].pc = "loop"
  /\ slots'[s].kind = "import"
  /\ Len(slots'[s].createdLeads) > Len(slots[s].createdLeads)

\* C15: every lead an import creates is recorded as assigned by the importing
\* user and is assigned to nobody.
C15_ImportedUnassigned ==
  [][\A s \in Slots :
       ImportCreates(s) =>
         /\ leads' # leads
         /\ \A l \in (leads' \ leads) \cup {slots'[s].createdLeads[Len(slots'[s].createdLeads)]} :
              /\ l.assignedBy = slots[s].user
              /\ l.assignedTo = NoUser]_vars

\* An import has stored a lead, which the collection holds as assigned by the
\* importer and to nobody.
C15_Witness ==
  \E s \in Slots :
    /\ slots[s].kind = "import"
    /\ slots[s].createdLeads # <<>>
    /\ \E l \in leads :
         /\ l.id = slots[s].createdLeads[1].id
         /\ l.assignedBy = slots[s].user
         /\ l.assignedTo = NoUser

(***************************************************************************)
(* Properties of the uploaded file.                                        *)
(***************************************************************************)
\* The import in the slot has been answered.
ImportAnswered(q) == q.kind = "import" /\ q.resp.status # 0

\* C16: when an import that received a file has been answered, whether the
\* file was unreadable, held no worksheet, was processed to the end or an
\* exception was caught, the uploaded file no longer exists.
C16_UploadRemoved ==
  \A s \in Slots : ImportAnswered(slots[s]) => ~slots[s].tmpFile

\* One import has been answered after a caught exception and another with its
\* report, and neither file exists any more.
C16_Witness ==
  \E s, t \in Slots :
    /\ ImportAnswered(slots[s]) /\ slots[s].resp.status = 500 /\ ~slots[s].tmpFile
    /\ ImportAnswered(slots[t]) /\ slots[t].resp.status = 200 /\ ~slots[t].tmpFile

\* The uploaded file cannot be parsed or holds no worksheet.
BadUpload(upload) == ~upload.readable \/ upload.sheets = <<>>

\* C17: a request whose file cannot be parsed or holds no worksheet is
\* answered in the step that takes it, with 400, success false and the empty
\* result, with no row processed and the collection unchanged.
C17_BadFileRefused ==
  [][\A s \in Slots :
       (slots'[s] # slots[s] /\ slots'[s].kind = "import" /\ BadUpload(slots'[s].upload)) =>
         /\ leads' = leads
         /\ slots'[s].pc = "done"
         /\ slots'[s].resp.status = 400
         /\ slots'[s].resp.data =
              [success |-> FALSE, totalRows |-> 0, successfulImports |-> 0,
               failedImports |-> 0, errors |-> <<>>, leads |-> <<>>]
         /\ slots'[s].createdLeads = <<>>
         /\ slots'[s].k = 1]_vars

\* An unreadable file and a workbook without worksheets have both been
\* refused while the collection held leads.
C17_Witness ==
  \E s, t \in Slots :
    /\ leads # {}
    /\ ImportAnswered(slots[s]) /\ ~slots[s].upload.readable
    /\ ImportAnswered(slots[t]) /\ slots[t].upload.readable /\ slots[t].upload.sheets = <<>>
    /\ slots[s].resp.status = 400 /\ slots[t].resp.status = 400

(***************************************************************************)
(* Properties of the success flag.                                         *)
(***************************************************************************)
\* C18: the success flag of a report answered with 200 is false whenever a
\* row failed (failedImports > 0) and true only when every row was imported.
C18_SuccessMeansAllImported ==
  \A s \in Slots :
    ImportReported(slots[s]) =>
      (slots[s].resp.data.success <=> slots[s].resp.data.failedImports = 0)

(***************************************************************************)
(* Properties of the notes of a lead.                                      *)
(***************************************************************************)
\* The sequence old is the beginning of the sequence new.
IsPrefix(old, new) == Len(old) <= Len(new) /\ SubSeq(new, 1, Len(old)) = old

\* C19: the notes of a lead are append-only: in every step of addNote,
\* updateLead and assignLeads the notes a lead had are still there, unchanged
\* and in the same order, and new notes come after them.
C19_NotesAppendOnly ==
  [][\A l \in leads : \A m \in leads' : m.id = l.id => IsPrefix(l.notes, m.notes)]_vars

\* A lead holds two different notes, has been updated and is assigned.
C19_Witness ==
  \E l \in leads :
    /\ Len(l.notes) = 2
    /\ l.notes[1] # l.notes[2]
    /\ l.status = "Closed-Lost"
    /\ l.assignedTo = "user"

(***************************************************************************)
(* Properties of the removal of leads.                                     *)
(***************************************************************************)
\* The lead is in the collection before the step and not after it.
Removed(l) == l \in leads /\ \A m \in leads' : m.id # l.id

\* C20: a lead leaves the collection only in the step of a deleteLead request
\* of an admin for that lead; a deleteLead request of a user who is not an
\* admin is answered 403 in the step that takes it and leaves the collection
\* unchanged; no step of any other request removes a lead.
C20_OnlyAdminDeletes ==
  [][/\ \A l \in leads :
          Removed(l) =>
            \E s \in Slots :
              /\ slots[s].kind = "delete"
              /\ slots[s].pc = "delete"
              /\ slots[s].id = l.id
              /\ Role(slots[s].user) = "admin"
              /\ slots'[s].pc = "done"
              /\ slots'[s].resp.status = 200
     /\ \A s \in Slots :
          (slots'[s] # slots[s] /\ slots'[s].kind = "delete"
             /\ Role(slots'[s].user) # "admin") =>
            /\ slots'[s].resp.status = 403
            /\ leads' = leads]_vars

\* An admin has deleted a lead, which is gone, and the deleteLead request of a
\* user who is not an admin has been refused while the collection held a lead.
C20_Witness ==
  \E s, t \in Slots :
    /\ slots[s].kind = "delete" /\ Role(slots[s].user) = "admin"
    /\ slots[s].resp.status = 200
    /\ \A l \in leads : l.id # slots[s].id
    /\ slots[t].kind = "delete" /\ Role(slots[t].user) # "admin"
    /\ slots[t].resp.status = 403
    /\ \E l \in leads : l.id = slots[t].id

(***************************************************************************)
(* Properties of what a user of role 'user' is shown.                      *)
(***************************************************************************)
\* The request in slot s is answered in this step with the fields of a lead
\* of the collection.
ShowsStoredLead(s, l) ==
  /\ slots'[s] # slots[s]
  /\ slots'[s].pc = "done"
  /\ "data" \in DOMAIN slots'[s].resp
  /\ l \in leads
  /\ l.id = slots'[s].resp.data.existingLead

\* C21: a user of role 'user' is shown only leads assigned to them: no answer
\* to a createLead or updateLead request of such a user carries the fields of
\* a lead that is unassigned or assigned to someone else.
C21_UserSeesOwnLeadsOnly ==
  [][\A s \in Slots : \A l \in leads :
       (slots'[s].kind \in {"create", "update"}
          /\ ShowsStoredLead(s, l)
          /\ Role(slots'[s].user) # "admin") =>
         l.assignedTo = slots'[s].user]_vars

(***************************************************************************)
(* Properties of the duplicates within a file.                             *)
(***************************************************************************)
\* The email of a row, trimmed and in lower case.
NormEmail(row) == toLowerCase(trim(row.email))

\* The valid rows before row i that have its normalized email.
EarlierWithEmail(jsonData, i) ==
  {h \in 1..(i - 1) : RowValid(jsonData, h) /\ NormEmail(jsonData[h]) = NormEmail(jsonData[i])}

\* The entries of the report that call row i a duplicate within the file.
DuplicateEntries(q, jsonData, i) ==
  {e \in 1..Len(q.resp.data.errors) :
     /\ q.resp.data.errors[e].field = "email"
     /\ q.resp.data.errors[e].message = Msg("dupfile", NormEmail(jsonData[i]))
     /\ q.resp.data.errors[e].row = ValidIndex(jsonData, i) + 1}

\* C22: among the valid rows of a file, only the first row with a normalized
\* email proceeds to creation: a lead created with that email carries the
\* record of the first row, and every later row with it has exactly one
\* 'Duplicate email within file' entry naming the email, the first row none.
C22_FirstOccurrenceWins ==
  \A s \in Slots :
    ImportReported(slots[s]) =>
      LET q == slots[s]
          jsonData == ParseSheet(q.file)
          created == {q.resp.data.leads[c] : c \in 1..Len(q.resp.data.leads)}
      IN  /\ \A i \in 1..Len(jsonData) :
               RowValid(jsonData, i) =>
                 IF EarlierWithEmail(jsonData, i) = {}
                   THEN /\ DuplicateEntries(q, jsonData, i) = {}
                        /\ \A l \in created :
                             l.email = NormEmail(jsonData[i]) => RecordOf(jsonData[i], l)
                   ELSE Cardinality(DuplicateEntries(q, jsonData, i)) = 1
          /\ Cardinality({e \in 1..Len(q.resp.data.errors) :
                            q.resp.data.errors[e].message.kind = "dupfile"})
               = Cardinality({i \in 1..Len(jsonData) :
                                RowValid(jsonData, i) /\ EarlierWithEmail(jsonData, i) # {}})

\* An import has been answered whose file had two valid rows with emails
\* written differently but equal once normalized; the first was created.
C22_Witness ==
  \E s \in Slots :
    /\ ImportReported(slots[s])
    /\ \E i \in 1..Len(ParseSheet(slots[s].file)) :
         /\ RowValid(ParseSheet(slots[s].file), i)
         /\ \E h \in EarlierWithEmail(ParseSheet(slots[s].file), i) :
              /\ ParseSheet(slots[s].file)[h].email # ParseSheet(slots[s].file)[i].email
              /\ \E c \in 1..Len(slots[s].resp.data.leads) :
                   RecordOf(ParseSheet(slots[s].file)[h], slots[s].resp.data.leads[c])
         /\ DuplicateEntries(slots[s], ParseSheet(slots[s].file), i) # {}

(***************************************************************************)
(* Properties of the row numbers of the report.                            *)
(***************************************************************************)
\* The entry was produced by the row of the sheet at its row number, the
\* header being row 1: a validation entry is among the errors of that row, any
\* other entry names the email of that row.
ProducedAtItsRow(sheet, error) ==
  /\ error.row \in 2..Len(sheet)
  /\ IF error.message.kind \in {"required", "format", "enum"}
       THEN LET v == validateAndNormalizeLeadRow(sheet[error.row], error.row)
            IN  \E n \in 1..Len(v.errors) : v.errors[n] = error
       ELSE /\ Truthy(sheet[error.row].email)
            /\ NormEmail(sheet[error.row]) = error.message.arg

\* C23: every entry of the errors of a report carries the row number in the
\* sheet (header = row 1) of the row that produced it, also when blank or
\* invalid rows precede that row.
C23_SheetRowNumbers ==
  \A s \in Slots :
    ImportReported(slots[s]) =>
      \A e \in 1..Len(slots[s].resp.data.errors) :
        ProducedAtItsRow(slots[s].file, slots[s].resp.data.errors[e])

(***************************************************************************)
(* Properties of the count of rows.                                        *)
(***************************************************************************)
\* The row of the sheet has at least one cell that is not empty.
HasCell(row) == \E column \in DOMAIN row : Truthy(row[column])

\* C24: totalRows of a report is the number of data rows of the sheet, the
\* rows after the header, that have at least one non-empty cell.
C24_TotalRowsCountsNonEmpty ==
  \A s \in Slots :
    ImportReported(slots[s]) =>
      slots[s].resp.data.totalRows =
        Cardinality({r \in 2..Len(slots[s].file) : HasCell(slots[s].file[r])})

(***************************************************************************)
(* Properties of the optional fields.                                      *)
(***************************************************************************)
\* The name, email and phone of the row are valid, and its source and
\* priority are allowed values or absent.
RequiredFieldsValid(row) ==
  /\ FieldsInError(row) = {}
  /\ ValidName(trim(row.name))
  /\ ValidPhone(trim(row.phone))
  /\ ~Supplied(row.source) \/ \E a \in 1..Len(validSources) : validSources[a] = trim(row.source)
  /\ ~Supplied(row.priority) \/ \E a \in 1..Len(validPriorities) : validPriorities[a] = trim(row.priority)

\* No other row of the file and no lead of the collection has the email or
\* the phone of row i.
UniqueRow(q, jsonData, i) ==
  /\ \A h \in 1..Len(jsonData) :
       h # i => /\ NormEmail(jsonData[h]) # NormEmail(jsonData[i])
                /\ trim(jsonData[h].phone) # trim(jsonData[i].phone)
  /\ \A l \in StartStore(q, leads) :
       l.email # NormEmail(jsonData[i]) /\ l.phone # trim(jsonData[i].phone)

\* C25: a row whose name, email and phone are valid and unique and whose
\* source and priority are valid or absent is imported whatever its company
\* and position are.
C25_OptionalFieldsNeverFail ==
  \A s \in Slots :
    ImportReported(slots[s]) =>
      LET jsonData == ParseSheet(slots[s].file)
      IN  \A i \in 1..Len(jsonData) :
            (RequiredFieldsValid(jsonData[i]) /\ UniqueRow(slots[s], jsonData, i)) =>
              RowImported(slots[s], jsonData, i)

(***************************************************************************)
(* Properties of the import wizard.                                        *)
(***************************************************************************)

\* The header the matching rules propose for a field when they are applied
\* in order of priority: the leftmost header that equals the field's name or
\* label, ignoring case, and only without such a header the leftmost header
\* that contains the name or is contained in it; <<>> without any.
ByRulePriority(headers, field) ==
  LET Contains(a, b) == \E i \in 0..(Len(a) - Len(b)) : SubSeq(a, i + 1, i + Len(b)) = b
      Lower(i) == trim(toLowerCase(headers[i]))
      exact == {i \in 1..Len(headers) :
                  \/ Lower(i) = toLowerCase(field.name)
                  \/ Lower(i) = toLowerCase(field.label)}
      substring == {i \in 1..Len(headers) :
                      \/ Contains(Lower(i), toLowerCase(field.name))
                      \/ Contains(toLowerCase(field.name), Lower(i))}
  IN  IF exact # {} THEN headers[SetMin(exact)]
      ELSE IF substring # {} THEN headers[SetMin(substring)]
      ELSE <<>>

\* C26: right after the automatic mapper has run on the headers of a sheet,
\* every entry it made proposes the header chosen by rule priority: an exact
\* match of the field's name or label wins over a substring match, also when
\* the substring match stands further left.
C26_ExactMatchWins ==
  wizard.event = "initializeFieldMappings" =>
    \A j \in 1..Len(wizard.fieldMappings), k \in 1..Len(leadFields) :
      wizard.fieldMappings[j].leadField = leadFields[k].name =>
        wizard.fieldMappings[j].excelColumn = ByRulePriority(PreviewHeaders, leadFields[k])

\* C27: once the operator has edited the mapping of the selected sheet, the
\* automatic mapper does not run again for that sheet: no step in which the
\* edited mapping of the selected sheet is on display runs
\* initializeFieldMappings on the headers of that same sheet.
C27_EditsSurvive ==
  [][~(/\ wizard.edited
       /\ wizard.sheetPreview = wizard.selectedSheet
       /\ wizard'.event = "initializeFieldMappings"
       /\ wizard'.sheetPreview = wizard.selectedSheet
       /\ wizard'.selectedSheet = wizard.selectedSheet)]_vars

\* The position of a step in the order of the wizard.
StepOrder ==
  [upload |-> 1, analyze |-> 2, map |-> 3, preview |-> 4, import |-> 5, complete |-> 6]

\* C28: the wizard advances only in the order upload, analyze, map, preview,
\* import, complete, one step at a time; it enters import only with a file
\* and a sheet selected and validated mappings, and complete only from import
\* with an import result; backwards it moves only to map and to upload.
C28_StepsInOrder ==
  [][LET from == wizard.currentStep
         to == wizard'.currentStep
     IN  from # to =>
           /\ \/ StepOrder[to] = StepOrder[from] + 1
              \/ StepOrder[to] < StepOrder[from] /\ to \in {"map", "upload"}
           /\ to = "import" => /\ wizard.selectedFile # ""
                               /\ wizard.selectedSheet # ""
                               /\ validateMappings(wizard.fieldMappings)
           /\ to = "complete" => from = "import" /\ wizard'.importResult]_vars

\* The handlers that run on an operator's click or selection; the others run
\* when the answer of a request arrives.
OperatorEvents ==
  {"handleFileSelect", "handleSheetChange", "updateFieldMapping", "addFieldMapping",
   "removeFieldMapping", "changeLeadField", "previewData", "backToMapping",
   "executeImport", "resetImport"}

\* C29: every forward step of the wizard is made by a handler of an operator
\* action, except the step from import to complete, which the answer of the
\* import request makes; the wizard does not go from analyze to map by itself.
C29_ForwardByOperator ==
  [][LET from == wizard.currentStep
         to == wizard'.currentStep
     IN  /\ StepOrder[to] > StepOrder[from]
         /\ ~(from = "import" /\ to = "complete")
         => wizard'.event \in OperatorEvents]_vars

\* Every field the catalog marks required has an entry with a column.
RequiredFieldsMapped(fieldMappings) ==
  \A k \in 1..Len(leadFields) :
    leadFields[k].required =>
      \E j \in 1..Len(fieldMappings) :
        /\ fieldMappings[j].leadField = leadFields[k].name
        /\ fieldMappings[j].excelColumn # <<>>

\* C30: an import request is sent only when every lead field that the catalog
\* marks required has a mapping entry with a non-empty column, whatever edits
\* of the mapping came before.
C30_RequiredFieldsSent ==
  [][wizard'.importing > wizard.importing => RequiredFieldsMapped(wizard.fieldMappings)]_vars

====
